---- MODULE Spec2Model ----
(***************************************************************************)
(* QtLucide resource pipeline (tools/build_resources.py,                   *)
(* tools/generate_headers.py, tools/generate_qrc.py) and icon usage        *)
(* validator (tools/validate_icon_usage.py).                               *)
(*                                                                         *)
(* A Python str is modelled as the sequence of its characters, each a      *)
(* one-character string, so that substring tests, splitting, the regular   *)
(* expression substitutions and lexicographic sorting are computed on the  *)
(* characters as the code computes them.  A Python dict (and the JSON      *)
(* object json.dump writes from it) is modelled as the sequence of its     *)
(* items in insertion order, which is the order json.dump serialises.      *)
(* A file is <<>> when it does not exist and <<content>> when it does.     *)
(***************************************************************************)
EXTENDS Integers, Sequences, FiniteSets, TLC

VARIABLES
    svg_dir,          \* resources/icons/svg: the base names of its *.svg files
    edits,            \* number of changes made to svg_dir so far
    icons_json,       \* resources/icons/metadata/icons.json
    categories_json,  \* resources/icons/metadata/categories.json
    tags_json,        \* resources/icons/metadata/tags.json
    qrc,              \* resources/icons/lucide_icons.qrc
    enums_h,          \* include/QtLucide/QtLucideEnums.h
    strings_h,        \* include/QtLucide/QtLucideStrings.h
    name,             \* the argument of a call of one of the per-name functions
    enum_name,        \* <<>> or <<the value _name_to_enum(name) returned>>
    categories,       \* <<>> or <<the list _categorize_icon(name) returned>>
    tags,             \* <<>> or <<the list _generate_tags_from_name(name) returned>>
    svg_dir_exists,       \* resources/icons/svg exists
    resources_dir_exists, \* resources/icons exists
    include_dir_exists,   \* include/QtLucide exists
    tools_dir,            \* the scripts present in tools/
    exit_code,        \* <<>> or <<exit status of the script that was run last>>
    build_all_result, \* <<>> or <<the value the last build_all returned>>
    sources,          \* examples/ and tests/: path -> the lines of the file
    available_icons,  \* IconUsageValidator.available_icons
    loaded_from,      \* <<>> or <<the artifact load_available_icons read>>
    icon_usage,       \* IconUsageValidator.icon_usage
    invalid_icons,    \* IconUsageValidator.invalid_icons
    is_valid,         \* <<>> or <<the value run_validation returned>>
    steps,            \* the stages or commands the script run last started,
                      \* in order, each with its return code
    stamp_file,       \* the stamp file of the build-system wrappers: <<>>
                      \* when absent, <<TRUE>> when the wrapper run last
                      \* touched it, <<FALSE>> when it is older than that run
    example_icons,    \* <<>> or <<path -> extract_icon_list_from_cpp(path)>>
    suggestions,      \* <<>> or <<the list the suggestion function returned>>
    fix_file          \* ICON_NAME_FIXES.md

vars == <<svg_dir, edits, icons_json, categories_json, tags_json, qrc,
          enums_h, strings_h, name, enum_name, categories, tags,
          svg_dir_exists, resources_dir_exists, include_dir_exists,
          tools_dir, exit_code, build_all_result, sources,
          available_icons, loaded_from, icon_usage, invalid_icons, is_valid,
          steps, stamp_file, example_icons, suggestions, fix_file>>

pipeline_vars == <<svg_dir, edits, icons_json, categories_json, tags_json, qrc,
                   enums_h, strings_h>>

call_vars == <<name, enum_name, categories, tags>>

dir_vars == <<svg_dir_exists, resources_dir_exists, include_dir_exists,
              tools_dir>>

exit_vars == <<exit_code, build_all_result>>

validator_vars == <<sources, available_icons, loaded_from, icon_usage,
                    invalid_icons, is_valid>>

tool_vars == <<steps, stamp_file, example_icons, suggestions, fix_file>>

-----------------------------------------------------------------------------
(* Bounds of the model.                                                    *)

\* longest name built from ProbeAlphabet for the per-name functions
MaxLen == 3

\* most *.svg files the directory holds
MaxIcons == 3

\* most changes made to the directory in one behaviour
MaxEdits == 1

\* most names of a catalogue a suggestion function is called with
MaxAvailable == 6

\* the number of lines written into the source files of a project
MaxLines == 2

-----------------------------------------------------------------------------
(* Strings.                                                                *)

Digits == <<"0", "1", "2", "3", "4", "5", "6", "7", "8", "9">>

UpperCase ==
    <<"A", "B", "C", "D", "E", "F", "G", "H", "I", "J", "K", "L", "M",
      "N", "O", "P", "Q", "R", "S", "T", "U", "V", "W", "X", "Y", "Z">>

LowerCase ==
    <<"a", "b", "c", "d", "e", "f", "g", "h", "i", "j", "k", "l", "m",
      "n", "o", "p", "q", "r", "s", "t", "u", "v", "w", "x", "y", "z">>

\* ord(c), for the characters the names are made of
CodePoint ==
       (" " :> 32) @@ ("!" :> 33) @@ ("-" :> 45) @@ ("." :> 46) @@ ("/" :> 47)
    @@ ("0" :> 48) @@ ("1" :> 49) @@ ("2" :> 50) @@ ("3" :> 51) @@ ("4" :> 52)
    @@ ("5" :> 53) @@ ("6" :> 54) @@ ("7" :> 55) @@ ("8" :> 56) @@ ("9" :> 57)
    @@ ("A" :> 65) @@ ("B" :> 66) @@ ("C" :> 67) @@ ("D" :> 68) @@ ("E" :> 69)
    @@ ("F" :> 70) @@ ("G" :> 71) @@ ("H" :> 72) @@ ("I" :> 73) @@ ("J" :> 74)
    @@ ("K" :> 75) @@ ("L" :> 76) @@ ("M" :> 77) @@ ("N" :> 78) @@ ("O" :> 79)
    @@ ("P" :> 80) @@ ("Q" :> 81) @@ ("R" :> 82) @@ ("S" :> 83) @@ ("T" :> 84)
    @@ ("U" :> 85) @@ ("V" :> 86) @@ ("W" :> 87) @@ ("X" :> 88) @@ ("Y" :> 89)
    @@ ("Z" :> 90) @@ ("_" :> 95) @@ ("a" :> 97) @@ ("b" :> 98) @@ ("c" :> 99)
    @@ ("d" :> 100) @@ ("e" :> 101) @@ ("f" :> 102) @@ ("g" :> 103) @@ ("h" :> 104)
    @@ ("i" :> 105) @@ ("j" :> 106) @@ ("k" :> 107) @@ ("l" :> 108) @@ ("m" :> 109)
    @@ ("n" :> 110) @@ ("o" :> 111) @@ ("p" :> 112) @@ ("q" :> 113) @@ ("r" :> 114)
    @@ ("s" :> 115) @@ ("t" :> 116) @@ ("u" :> 117) @@ ("v" :> 118) @@ ("w" :> 119)
    @@ ("x" :> 120) @@ ("y" :> 121) @@ ("z" :> 122)

Range(s) == {s[i] : i \in DOMAIN s}

\* a < b for two str values: the comparison sorted() uses
RECURSIVE StrLess(_, _)
StrLess(a, b) ==
    IF a = <<>> THEN b # <<>>
    ELSE IF b = <<>> THEN FALSE
    ELSE IF Head(a) = Head(b) THEN StrLess(Tail(a), Tail(b))
    ELSE CodePoint[Head(a)] < CodePoint[Head(b)]

RECURSIVE InsertSorted(_, _)
InsertSorted(x, s) ==
    IF s = <<>> THEN <<x>>
    ELSE IF StrLess(x, Head(s)) THEN <<x>> \o s
    ELSE <<Head(s)>> \o InsertSorted(x, Tail(s))

\* sorted() left out: the keys in the order of the dict
unsorted(keys) == keys

\* sorted(keys), keys a list of str
RECURSIVE sorted(_)
sorted(keys) ==
    IF keys = <<>> THEN <<>>
    ELSE InsertSorted(keys[Len(keys)], sorted(SubSeq(keys, 1, Len(keys) - 1)))

\* keyword in name
Contains(nm, keyword) ==
    \E i \in 0..(Len(nm) - Len(keyword)) :
        SubSeq(nm, i + 1, i + Len(keyword)) = keyword

\* any(word in name for word in words)
ContainsAny(nm, words) == \E i \in DOMAIN words : Contains(nm, words[i])

\* every list that holds each element of the set S exactly once
RECURSIVE Orders(_)
Orders(S) ==
    IF S = {} THEN {<<>>}
    ELSE UNION {{<<x>> \o rest : rest \in Orders(S \ {x})} : x \in S}

-----------------------------------------------------------------------------
(* generate_headers.py: _name_to_enum                                      *)

\* the characters the class [a-zA-Z0-9_] matches
IdentChars == Range(LowerCase) \cup Range(UpperCase) \cup Range(Digits) \cup {"_"}

cpp_keywords ==
    { <<"d", "e", "l", "e", "t", "e">>, <<"n", "e", "w">>, <<"c", "l", "a", "s", "s">>, <<"s", "t", "r", "u", "c", "t">>, <<"e", "n", "u", "m">>, <<"u", "n", "i", "o", "n">>,
      <<"t", "y", "p", "e", "d", "e", "f">>, <<"s", "t", "a", "t", "i", "c">>, <<"c", "o", "n", "s", "t">>, <<"v", "o", "l", "a", "t", "i", "l", "e">>, <<"i", "n", "l", "i", "n", "e">>, <<"v", "i", "r", "t", "u", "a", "l">>,
      <<"e", "x", "p", "l", "i", "c", "i", "t">>, <<"o", "p", "e", "r", "a", "t", "o", "r">>, <<"t", "e", "m", "p", "l", "a", "t", "e">>, <<"t", "y", "p", "e", "n", "a", "m", "e">>, <<"n", "a", "m", "e", "s", "p", "a", "c", "e">>, <<"u", "s", "i", "n", "g">>,
      <<"p", "u", "b", "l", "i", "c">>, <<"p", "r", "i", "v", "a", "t", "e">>, <<"p", "r", "o", "t", "e", "c", "t", "e", "d">>, <<"f", "r", "i", "e", "n", "d">>, <<"e", "x", "t", "e", "r", "n">>, <<"r", "e", "g", "i", "s", "t", "e", "r">>,
      <<"a", "u", "t", "o">>, <<"v", "o", "i", "d">>, <<"c", "h", "a", "r">>, <<"s", "h", "o", "r", "t">>, <<"i", "n", "t">>, <<"l", "o", "n", "g">>,
      <<"f", "l", "o", "a", "t">>, <<"d", "o", "u", "b", "l", "e">>, <<"s", "i", "g", "n", "e", "d">>, <<"u", "n", "s", "i", "g", "n", "e", "d">>, <<"b", "o", "o", "l">>, <<"t", "r", "u", "e">>,
      <<"f", "a", "l", "s", "e">>, <<"i", "f">>, <<"e", "l", "s", "e">>, <<"f", "o", "r">>, <<"w", "h", "i", "l", "e">>, <<"d", "o">>,
      <<"s", "w", "i", "t", "c", "h">>, <<"c", "a", "s", "e">>, <<"d", "e", "f", "a", "u", "l", "t">>, <<"b", "r", "e", "a", "k">>, <<"c", "o", "n", "t", "i", "n", "u", "e">>, <<"r", "e", "t", "u", "r", "n">>,
      <<"g", "o", "t", "o">>, <<"t", "r", "y">>, <<"c", "a", "t", "c", "h">>, <<"t", "h", "r", "o", "w">>, <<"s", "i", "z", "e", "o", "f">> }

\* name.replace("-", "_") in place of the substitution
ReplaceOnlyHyphens(nm) ==
    [i \in DOMAIN nm |-> IF nm[i] = "-" THEN "_" ELSE nm[i]]

\* re.sub(r"[^a-zA-Z0-9_]", "_", name)
ReplaceNonIdent(nm) ==
    [i \in DOMAIN nm |-> IF nm[i] \in IdentChars THEN nm[i] ELSE "_"]

\* re.sub(r"^(\d)", r"Icon_\1", enum_name)
PrefixDigit(s) ==
    IF s # <<>> /\ s[1] \in Range(Digits) THEN <<"I", "c", "o", "n", "_">> \o s ELSE s

\* if enum_name in cpp_keywords: enum_name = f"icon_{enum_name}"
PrefixKeyword(s) ==
    IF s \in cpp_keywords THEN <<"i", "c", "o", "n", "_">> \o s ELSE s

_name_to_enum(nm) == PrefixKeyword(PrefixDigit(ReplaceNonIdent(nm)))

-----------------------------------------------------------------------------
(* build_resources.py: _generate_tags_from_name, _categorize_icon          *)

\* the characters str.split() splits on
Whitespace == {" "}

\* s.split(): the maximal runs of non-whitespace characters, in order
RECURSIVE split(_, _, _)
split(s, word, words) ==
    IF s = <<>> THEN (IF word = <<>> THEN words ELSE Append(words, word))
    ELSE IF Head(s) \in Whitespace
         THEN split(Tail(s), <<>>,
                    IF word = <<>> THEN words ELSE Append(words, word))
         ELSE split(Tail(s), Append(word, Head(s)), words)

\* name.replace("-", " ")
ReplaceHyphens(nm) == [i \in DOMAIN nm |-> IF nm[i] = "-" THEN " " ELSE nm[i]]

\* the keyword groups of _generate_tags_from_name, in the order of its ifs
tag_keywords ==
    << [tag |-> <<"n", "a", "v", "i", "g", "a", "t", "i", "o", "n">>,
        words |-> << <<"a", "r", "r", "o", "w">>, <<"c", "h", "e", "v", "r", "o", "n">> >>],
       [tag |-> <<"f", "i", "l", "e", "s">>,
        words |-> << <<"f", "i", "l", "e">>, <<"f", "o", "l", "d", "e", "r">>, <<"d", "o", "c", "u", "m", "e", "n", "t">> >>],
       [tag |-> <<"u", "s", "e", "r", "s">>,
        words |-> << <<"u", "s", "e", "r">>, <<"p", "e", "r", "s", "o", "n">>, <<"p", "e", "o", "p", "l", "e">> >>],
       [tag |-> <<"s", "o", "c", "i", "a", "l">>,
        words |-> << <<"h", "e", "a", "r", "t">>, <<"s", "t", "a", "r">>, <<"l", "i", "k", "e">> >>] >>

\* the list tags before list(set(tags)): the parts, then the group tags
TagList(nm) ==
    LET parts == split(ReplaceHyphens(nm), <<>>, <<>>)
        hit == SelectSeq(tag_keywords, LAMBDA g : ContainsAny(nm, g.words))
    IN  parts \o [i \in DOMAIN hit |-> hit[i].tag]

\* set() left out: the list as it was built
ListWithDuplicates(lst) == {lst}

\* list(set(tags)): the elements once each, in the iteration order of the
\* set, which the code does not determine (str hashes are salted per run)
ListOfSet(lst) == Orders(Range(lst))

\* the lists _generate_tags_from_name(name) can return
_generate_tags_from_name(nm) == ListOfSet(TagList(nm))

category_keywords ==
    << [category |-> <<"n", "a", "v", "i", "g", "a", "t", "i", "o", "n">>,
        keywords |-> << <<"a", "r", "r", "o", "w">>, <<"c", "h", "e", "v", "r", "o", "n">>, <<"m", "e", "n", "u">>, <<"h", "o", "m", "e">>, <<"b", "a", "c", "k">>, <<"f", "o", "r", "w", "a", "r", "d">> >>],
       [category |-> <<"f", "i", "l", "e", "s">>,
        keywords |-> << <<"f", "i", "l", "e">>, <<"f", "o", "l", "d", "e", "r">>, <<"d", "o", "c", "u", "m", "e", "n", "t">>, <<"s", "a", "v", "e">>, <<"d", "o", "w", "n", "l", "o", "a", "d">>, <<"u", "p", "l", "o", "a", "d">> >>],
       [category |-> <<"c", "o", "m", "m", "u", "n", "i", "c", "a", "t", "i", "o", "n">>,
        keywords |-> << <<"m", "a", "i", "l">>, <<"m", "e", "s", "s", "a", "g", "e">>, <<"p", "h", "o", "n", "e">>, <<"c", "h", "a", "t">>, <<"s", "e", "n", "d">> >>],
       [category |-> <<"m", "e", "d", "i", "a">>,
        keywords |-> << <<"p", "l", "a", "y">>, <<"p", "a", "u", "s", "e">>, <<"s", "t", "o", "p">>, <<"m", "u", "s", "i", "c">>, <<"v", "i", "d", "e", "o">>, <<"c", "a", "m", "e", "r", "a">> >>],
       [category |-> <<"s", "o", "c", "i", "a", "l">>,
        keywords |-> << <<"h", "e", "a", "r", "t">>, <<"s", "t", "a", "r">>, <<"l", "i", "k", "e">>, <<"s", "h", "a", "r", "e">>, <<"u", "s", "e", "r">>, <<"u", "s", "e", "r", "s">> >>],
       [category |-> <<"s", "y", "s", "t", "e", "m">>,
        keywords |-> << <<"s", "e", "t", "t", "i", "n", "g", "s">>, <<"c", "o", "g">>, <<"g", "e", "a", "r">>, <<"p", "o", "w", "e", "r">>, <<"b", "a", "t", "t", "e", "r", "y">>, <<"w", "i", "f", "i">> >>],
       [category |-> <<"e", "d", "i", "t", "i", "n", "g">>,
        keywords |-> << <<"e", "d", "i", "t">>, <<"p", "e", "n">>, <<"p", "e", "n", "c", "i", "l">>, <<"b", "r", "u", "s", "h">>, <<"c", "u", "t">>, <<"c", "o", "p", "y">>, <<"p", "a", "s", "t", "e">> >>],
       [category |-> <<"b", "u", "s", "i", "n", "e", "s", "s">>,
        keywords |-> << <<"b", "r", "i", "e", "f", "c", "a", "s", "e">>, <<"c", "h", "a", "r", "t">>, <<"g", "r", "a", "p", "h">>, <<"m", "o", "n", "e", "y">>, <<"b", "a", "n", "k">>, <<"c", "r", "e", "d", "i", "t">> >>] >>

\* a break after the first category that matches
_categorize_icon_first_match(nm) ==
    LET hit == SelectSeq(category_keywords,
                         LAMBDA c : ContainsAny(nm, c.keywords))
    IN  IF hit = <<>> THEN << <<"g", "e", "n", "e", "r", "a", "l">> >> ELSE << hit[1].category >>

_categorize_icon(nm) ==
    LET hit == SelectSeq(category_keywords,
                         LAMBDA c : ContainsAny(nm, c.keywords))
        cats == [i \in DOMAIN hit |-> hit[i].category]
    IN  IF cats = <<>> THEN << <<"g", "e", "n", "e", "r", "a", "l">> >> ELSE cats

\* d[label] = [icon_name], the list replaced when the label is met again
AppendTo_replace(index, label, icon_name) ==
    IF \E i \in DOMAIN index : index[i].label = label
    THEN [i \in DOMAIN index |->
             IF index[i].label = label
             THEN [label |-> label, names |-> <<icon_name>>]
             ELSE index[i]]
    ELSE Append(index, [label |-> label, names |-> <<icon_name>>])

\* the lists of labels of icons_data, turned into label -> [icon names]:
\* d[label].append(icon_name), the list created when the label is first met
AppendTo(index, label, icon_name) ==
    IF \E i \in DOMAIN index : index[i].label = label
    THEN [i \in DOMAIN index |->
             IF index[i].label = label
             THEN [label |-> label, names |-> Append(index[i].names, icon_name)]
             ELSE index[i]]
    ELSE Append(index, [label |-> label, names |-> <<icon_name>>])

\* for label in icon_data.get(field, []): ...
RECURSIVE AppendLabels(_, _, _)
AppendLabels(index, labels, icon_name) ==
    IF labels = <<>> THEN index
    ELSE AppendLabels(AppendTo(index, Head(labels), icon_name),
                      Tail(labels), icon_name)

\* for icon_name, icon_data in icons_data.items(): ...
RECURSIVE IndexBy(_, _, _)
IndexBy(field, icons_data, index) ==
    IF icons_data = <<>> THEN index
    ELSE IndexBy(field, Tail(icons_data),
                 AppendLabels(index, Head(icons_data)[field],
                              Head(icons_data).name))

\* the two dicts _generate_categories_and_tags dumps
_generate_categories_and_tags(icons_data) ==
    [categories |-> IndexBy("categories", icons_data, <<>>),
     tags       |-> IndexBy("tags", icons_data, <<>>)]

\* the record with "svg_file": f"{svg_name}.svg"
IconData_without_directory(svg_name, tag_list) ==
    [name         |-> svg_name,
     svg_file     |-> svg_name \o <<".", "s", "v", "g">>,
     tags         |-> tag_list,
     categories   |-> _categorize_icon(svg_name),
     contributors |-> <<>>]

\* icons_data[svg_name] = {...} for one scanned name, a tag list chosen
IconData(svg_name, tag_list) ==
    [name         |-> svg_name,
     svg_file     |-> <<"s", "v", "g", "/">> \o svg_name \o <<".", "s", "v", "g">>,
     tags         |-> tag_list,
     categories   |-> _categorize_icon(svg_name),
     contributors |-> <<>>]

\* the dicts icons_data the loop over svg_names can build
RECURSIVE IconsData(_)
IconsData(svg_names) ==
    IF svg_names = <<>> THEN {<<>>}
    ELSE {<<IconData(Head(svg_names), t)>> \o rest :
             t \in _generate_tags_from_name(Head(svg_names)),
             rest \in IconsData(Tail(svg_names))}

\* the orders in which self.svg_dir.glob("*.svg") can yield the files
scan_svg_files(dir) == Orders(dir)

\* icons_metadata
IconsMetadata(icons_data) ==
    [icons |-> icons_data, count |-> Len(icons_data), version |-> "1.0.0"]

-----------------------------------------------------------------------------
(* generate_headers.py, generate_qrc.py: the generators                    *)

\* self.icons_data.keys() of the loaded metadata, in file order
Keys(icons_data) == [i \in DOMAIN icons_data |-> icons_data[i].name]

\* the loop over self.icons_data.keys() without sorted()
generate_enums_header_unsorted(icons_data) ==
    LET names == Keys(icons_data)
    IN  [enum_values |-> [i \in DOMAIN names |->
                             [enum_name |-> _name_to_enum(names[i]),
                              value     |-> i - 1]],
         ICON_COUNT  |-> Len(icons_data)]

\* the loop over sorted(self.icons_data.keys(), reverse=True)
generate_enums_header_descending(icons_data) ==
    LET names == sorted(Keys(icons_data))
        N == Len(names)
    IN  [enum_values |-> [i \in DOMAIN names |->
                             [enum_name |-> _name_to_enum(names[N + 1 - i]),
                              value     |-> i - 1]],
         ICON_COUNT  |-> Len(icons_data)]

\* an enumeration that is given the constant None when there is no icon
generate_enums_header_with_placeholder(icons_data) ==
    LET names == sorted(Keys(icons_data))
    IN  IF names = <<>>
        THEN [enum_values |-> <<[enum_name |-> <<"N", "o", "n", "e">>, value |-> 0]>>,
              ICON_COUNT  |-> 1]
        ELSE [enum_values |-> [i \in DOMAIN names |->
                                  [enum_name |-> _name_to_enum(names[i]),
                                   value     |-> i - 1]],
              ICON_COUNT  |-> Len(icons_data)]

\* QtLucideEnums.h: the lines "<enum_name> = <i>" and ICON_COUNT
generate_enums_header(icons_data) ==
    LET names == sorted(Keys(icons_data))
    IN  [enum_values |-> [i \in DOMAIN names |->
                             [enum_name |-> _name_to_enum(names[i]),
                              value     |-> i - 1]],
         ICON_COUNT  |-> Len(icons_data)]

\* the entries of the lookup table in the order of the keys of the store
generate_strings_header_unsorted(icons_data) ==
    LET names == Keys(icons_data)
    IN  [i \in DOMAIN names |->
            [enum_name |-> _name_to_enum(names[i]), icon_name |-> names[i]]]

\* QtLucideStrings.h: the entries {Icons::<enum_name>, "<icon_name>"}
generate_strings_header(icons_data) ==
    LET names == sorted(Keys(icons_data))
    IN  [i \in DOMAIN names |->
            [enum_name |-> _name_to_enum(names[i]), icon_name |-> names[i]]]

\* the loop over self.icons_data.keys() without sorted()
generate_qrc_unsorted(icons_data) ==
    LET names == Keys(icons_data)
    IN  [i \in DOMAIN names |->
            [alias |-> names[i], file |-> <<"s", "v", "g", "/">> \o names[i] \o <<".", "s", "v", "g">>]]

\* lucide_icons.qrc: the entries <file alias="<icon_name>">svg/<icon_name>.svg</file>
generate_qrc(icons_data) ==
    LET names == sorted(Keys(icons_data))
    IN  [i \in DOMAIN names |->
            [alias |-> names[i], file |-> <<"s", "v", "g", "/">> \o names[i] \o <<".", "s", "v", "g">>]]

\* QtLucideStrings.h, ICON_TO_STRING_MAP: the QHash built from the entries
\* in order, a later entry replacing an earlier one with the same key
RECURSIVE ICON_TO_STRING_MAP(_)
ICON_TO_STRING_MAP(entries) ==
    IF entries = <<>> THEN <<>>
    ELSE LET last == entries[Len(entries)]
             before == ICON_TO_STRING_MAP(SubSeq(entries, 1, Len(entries) - 1))
         IN  [k \in DOMAIN before \cup {last.enum_name} |->
                 IF k = last.enum_name THEN last.icon_name ELSE before[k]]

\* QtLucideStrings.h, createStringToIconMap: map[it.value()] = it.key()
\* for every item of ICON_TO_STRING_MAP
createStringToIconMap(to_string) ==
    [s \in {to_string[k] : k \in DOMAIN to_string} |->
        CHOOSE k \in DOMAIN to_string : to_string[k] = s]

-----------------------------------------------------------------------------
(* The inputs.                                                             *)

\* the characters of the generated names
ProbeAlphabet == {"d", "o", "p", "e", "n", "w", "-", "_", "1", "!", " "}

\* longer names, among them those of the documented scenarios
ExampleNames ==
    { <<"a", "r", "r", "o", "w", "-", "l", "e", "f", "t">>, <<"a", "r", "r", "o", "w", "-", "r", "i", "g", "h", "t">>, <<"z", "e", "b", "r", "a">>, <<"a", "!", "b">>, <<"a", "_", "b">>, <<"a", "-", "b">>,
      <<"f", "i", "l", "e", "s">>, <<"f", "i", "l", "e", "-", "u", "s", "e", "r">>, <<"u", "s", "e", "r", "-", "s", "t", "a", "r">>, <<"d", "e", "l", "e", "t", "e">>, <<"i", "c", "o", "n", "_", "d", "o">>,
      <<"8", "-", "b", "a", "l", "l">>, <<"a", "-", "-", "b">>, <<"-", "p", "e", "n", "-">>, <<"m", "y", " ", "i", "c", "o", "n">>, <<"c", "h", "e", "v", "r", "o", "n", "-", "d", "o", "w", "n">>,
      <<"f", "o", "l", "d", "e", "r", "-", "o", "p", "e", "n">>, <<"p", "e", "n", "c", "i", "l">>, <<"p", "e", "n", "-", "o", "f", "f">>, <<"s", "e", "t", "t", "i", "n", "g", "s", "-", "2">> }

ProbeNames ==
    ExampleNames \cup UNION {[1..k -> ProbeAlphabet] : k \in 1..MaxLen}

\* the names the files of the directory are drawn from
Catalogue ==
    { <<"a", "!", "b">>, <<"a", "_", "b">>, <<"p", "e", "n">>, <<"p", "e", "n", "-", "o", "f", "f">>, <<"z", "e", "b", "r", "a">> }

-----------------------------------------------------------------------------
(* The files generate_metadata_from_svg can write.                         *)

\* icons.json, categories.json and tags.json as one run writes them, for
\* every order of the scan and every order of the tag lists
MetadataFiles(dir) ==
    UNION {{[icons      |-> IconsMetadata(icons_data),
             categories |-> _generate_categories_and_tags(icons_data).categories,
             tags       |-> _generate_categories_and_tags(icons_data).tags] :
              icons_data \in IconsData(svg_names)} :
           svg_names \in scan_svg_files(dir)}

\* the directories of the model
Directories == {d \in SUBSET Catalogue : Cardinality(d) <= MaxIcons}

\* MetadataFiles, tabulated
MetadataFilesTable == {<<d, MetadataFiles(d)>> : d \in Directories}

MetadataFilesOf(dir) == (CHOOSE row \in MetadataFilesTable : row[1] = dir)[2]

-----------------------------------------------------------------------------
(* Reading the metadata store.                                             *)

\* the content of a file that json.load rejects
Unparsable == [JSONDecodeError |-> TRUE]

\* a JSON object without the key "icons"
WithoutIcons == [count |-> 0, version |-> "1.0.0"]

\* data.get("icons", {}) in place of data["icons"]
load_metadata_with_default(file) ==
    IF file = <<>> THEN <<>>
    ELSE IF file[1] = Unparsable THEN <<>>
    ELSE IF "icons" \notin DOMAIN file[1] THEN << <<>> >>
    ELSE <<file[1].icons>>

\* load_metadata of both generators: <<>> when open(), json.load or
\* data["icons"] raises, else <<data["icons"]>>
load_metadata(file) ==
    IF file = <<>> THEN <<>>
    ELSE IF file[1] = Unparsable THEN <<>>
    ELSE IF "icons" \notin DOMAIN file[1] THEN <<>>
    ELSE <<file[1].icons>>

\* the scripts build_all runs as sub-processes
Tools == {"generate_qrc.py", "generate_headers.py"}

\* the source files of the model, relative to the project root
Paths == {<<"e", "x", "a", "m", "p", "l", "e", "s", "/", "m", "a", "i", "n", ".", "c", "p", "p">>, <<"t", "e", "s", "t", "s", "/", "t", "e", "s", "t", "_", "i", "c", "o", "n", "s", ".", "h">>, <<"e", "x", "a", "m", "p", "l", "e", "s", "/", "R", "E", "A", "D", "M", "E", ".", "m", "d">>}

\* no script has exited, build_all has not returned
NothingRun ==
    /\ exit_code = <<>>
    /\ build_all_result = <<>>
    /\ steps = <<>>
    /\ stamp_file = <<>>
    /\ example_icons = <<>>
    /\ suggestions = <<>>
    /\ fix_file = <<>>

\* IconUsageValidator.__init__, and run_validation not called
IconUsageValidator ==
    /\ available_icons = {}
    /\ loaded_from = <<>>
    /\ icon_usage = <<>>
    /\ invalid_icons = <<>>
    /\ is_valid = <<>>

-----------------------------------------------------------------------------
(* The per-name functions, called on one name.                             *)

InitCall ==
    /\ name \in ProbeNames
    /\ enum_name = <<>>
    /\ categories = <<>>
    /\ tags = <<>>
    /\ svg_dir = {}
    /\ edits = 0
    /\ icons_json = <<>>
    /\ categories_json = <<>>
    /\ tags_json = <<>>
    /\ qrc = <<>>
    /\ enums_h = <<>>
    /\ strings_h = <<>>
    /\ svg_dir_exists = FALSE
    /\ resources_dir_exists = FALSE
    /\ include_dir_exists = FALSE
    /\ tools_dir = Tools
    /\ NothingRun
    /\ sources = [path \in Paths |-> <<>>]
    /\ IconUsageValidator

CallNameToEnum ==
    /\ enum_name = <<>>
    /\ enum_name' = <<_name_to_enum(name)>>
    /\ UNCHANGED <<name, categories, tags, pipeline_vars, dir_vars, exit_vars,
                   validator_vars, tool_vars>>

CallCategorizeIcon ==
    /\ categories = <<>>
    /\ categories' = <<_categorize_icon(name)>>
    /\ UNCHANGED <<name, enum_name, tags, pipeline_vars, dir_vars, exit_vars,
                   validator_vars, tool_vars>>

CallGenerateTags ==
    /\ tags = <<>>
    /\ \E lst \in _generate_tags_from_name(name) : tags' = <<lst>>
    /\ UNCHANGED <<name, enum_name, categories, pipeline_vars, dir_vars,
                   exit_vars, validator_vars, tool_vars>>

NextCall == CallNameToEnum \/ CallCategorizeIcon \/ CallGenerateTags

SpecCall == InitCall /\ [][NextCall]_vars

-----------------------------------------------------------------------------
(* The pipeline on a directory of SVG files.                               *)

Init ==
    /\ svg_dir \in Directories
    /\ edits = 0
    /\ icons_json = <<>>
    /\ categories_json = <<>>
    /\ tags_json = <<>>
    /\ qrc = <<>>
    /\ enums_h = <<>>
    /\ strings_h = <<>>
    /\ name = <<>>
    /\ enum_name = <<>>
    /\ categories = <<>>
    /\ tags = <<>>
    /\ svg_dir_exists = TRUE
    /\ resources_dir_exists = TRUE
    /\ include_dir_exists = FALSE
    /\ tools_dir = Tools
    /\ NothingRun
    /\ sources = [path \in Paths |-> <<>>]
    /\ IconUsageValidator

\* a file <svg_name>.svg is put into the directory
AddSvg ==
    /\ svg_dir_exists
    /\ edits < MaxEdits
    /\ Cardinality(svg_dir) < MaxIcons
    /\ \E svg_name \in Catalogue \ svg_dir : svg_dir' = svg_dir \cup {svg_name}
    /\ edits' = edits + 1
    /\ UNCHANGED <<icons_json, categories_json, tags_json, qrc, enums_h,
                   strings_h, call_vars, dir_vars, exit_vars, validator_vars,
                   tool_vars>>

\* a file is removed from the directory
RemoveSvg ==
    /\ edits < MaxEdits
    /\ \E svg_name \in svg_dir : svg_dir' = svg_dir \ {svg_name}
    /\ edits' = edits + 1
    /\ UNCHANGED <<icons_json, categories_json, tags_json, qrc, enums_h,
                   strings_h, call_vars, dir_vars, exit_vars, validator_vars,
                   tool_vars>>

\* the files scan_svg_files finds: none when the directory does not exist
ScannedDir == IF svg_dir_exists THEN svg_dir ELSE {}

\* QtLucideResourceBuilder(project_root).generate_metadata_from_svg(): the
\* constructor makes the metadata and include directories
generate_metadata_from_svg ==
    \E files \in MetadataFilesOf(ScannedDir) :
        /\ resources_dir_exists' = TRUE
        /\ include_dir_exists' = TRUE
        /\ icons_json' = <<files.icons>>
        /\ categories_json' = <<files.categories>>
        /\ tags_json' = <<files.tags>>
        /\ UNCHANGED <<svg_dir, edits, qrc, enums_h, strings_h, call_vars,
                       svg_dir_exists, tools_dir, exit_vars, validator_vars,
                       tool_vars>>

\* generate_headers.py main: load_metadata, then generate_headers.  When
\* load_metadata raises, the process ends with status 1 before mkdir.
generate_headers_main ==
    /\ IF load_metadata(icons_json) = <<>>
       THEN /\ exit_code' = <<1>>
            /\ UNCHANGED <<include_dir_exists, enums_h, strings_h>>
       ELSE /\ include_dir_exists' = TRUE
            /\ enums_h' = <<generate_enums_header(load_metadata(icons_json)[1])>>
            /\ strings_h' = <<generate_strings_header(load_metadata(icons_json)[1])>>
            /\ exit_code' = <<0>>
    /\ UNCHANGED <<svg_dir, edits, icons_json, categories_json, tags_json,
                   qrc, call_vars, svg_dir_exists, resources_dir_exists,
                   tools_dir, build_all_result, validator_vars, tool_vars>>

\* generate_qrc.py main: load_metadata, then generate_qrc, which makes the
\* directory of the output file
generate_qrc_main ==
    /\ IF load_metadata(icons_json) = <<>>
       THEN /\ exit_code' = <<1>>
            /\ UNCHANGED <<resources_dir_exists, qrc>>
       ELSE /\ resources_dir_exists' = TRUE
            /\ qrc' = <<generate_qrc(load_metadata(icons_json)[1])>>
            /\ exit_code' = <<0>>
    /\ UNCHANGED <<svg_dir, edits, icons_json, categories_json, tags_json,
                   enums_h, strings_h, call_vars, svg_dir_exists,
                   include_dir_exists, tools_dir, build_all_result,
                   validator_vars, tool_vars>>

Next ==
    \/ AddSvg
    \/ RemoveSvg
    \/ generate_metadata_from_svg
    \/ generate_headers_main
    \/ generate_qrc_main

Spec == Init /\ [][Next]_vars

-----------------------------------------------------------------------------
(* The generators on a metadata store that may be missing or damaged.      *)

\* the stores of at most one icon
SmallStores ==
    UNION {{files.icons : files \in MetadataFilesOf(d)} :
           d \in {d \in Directories : Cardinality(d) <= 1}}

InitStore ==
    /\ icons_json \in {<<>>, <<Unparsable>>, <<WithoutIcons>>}
                        \cup {<<store>> : store \in SmallStores}
    /\ categories_json = <<>>
    /\ tags_json = <<>>
    /\ \E old \in {<<>>} \cup {<<store>> : store \in SmallStores} :
           /\ enums_h = IF old = <<>> THEN <<>>
                        ELSE <<generate_enums_header(old[1].icons)>>
           /\ strings_h = IF old = <<>> THEN <<>>
                          ELSE <<generate_strings_header(old[1].icons)>>
    /\ qrc \in {<<>>} \cup {<<generate_qrc(store.icons)>> : store \in SmallStores}
    /\ include_dir_exists \in {b \in BOOLEAN : enums_h # <<>> => b}
    /\ resources_dir_exists \in
           {b \in BOOLEAN : icons_json # <<>> \/ qrc # <<>> => b}
    /\ svg_dir_exists = FALSE
    /\ svg_dir = {}
    /\ edits = 0
    /\ tools_dir = Tools
    /\ NothingRun
    /\ name = <<>>
    /\ enum_name = <<>>
    /\ categories = <<>>
    /\ tags = <<>>
    /\ sources = [path \in Paths |-> <<>>]
    /\ IconUsageValidator

NextStore == generate_headers_main \/ generate_qrc_main

SpecStore == InitStore /\ [][NextStore]_vars

-----------------------------------------------------------------------------
(* build_all on a project whose SVG directory may be missing.              *)

\* subprocess.run(cmd).returncode of a generator script started right after
\* the metadata was written: the interpreter exits with 2 when the script is
\* not there, the generator with 0 on the store just written
returncode(script) == IF script \in tools_dir THEN 0 ELSE 2

\* the stages build_all starts, in order, with their return codes (0 for the
\* metadata synthesis, which runs in the builder's own process)
Stages ==
    <<<<"generate_metadata_from_svg", 0>>,
      <<"generate_qrc.py", returncode("generate_qrc.py")>>>>
    \o IF returncode("generate_qrc.py") # 0 THEN <<>>
       ELSE <<<<"generate_headers.py", returncode("generate_headers.py")>>>>

\* build_all that goes on to the headers after generate_qrc.py failed
BuildAll_not_aborting(files) ==
    LET qrc_ran == returncode("generate_qrc.py") = 0
        headers_ran == returncode("generate_headers.py") = 0
        icons_data == load_metadata(<<files.icons>>)[1]
    IN  /\ resources_dir_exists' = TRUE
        /\ include_dir_exists' = TRUE
        /\ icons_json' = <<files.icons>>
        /\ categories_json' = <<files.categories>>
        /\ tags_json' = <<files.tags>>
        /\ qrc' = IF qrc_ran THEN <<generate_qrc(icons_data)>> ELSE qrc
        /\ IF headers_ran
           THEN /\ enums_h' = <<generate_enums_header(icons_data)>>
                /\ strings_h' = <<generate_strings_header(icons_data)>>
           ELSE UNCHANGED <<enums_h, strings_h>>
        /\ build_all_result' = <<qrc_ran /\ headers_ran>>

\* build_all whose manifest stage keeps a manifest that is already there
BuildAll_keeping_manifest(files) ==
    LET qrc_ran == returncode("generate_qrc.py") = 0
        headers_ran == qrc_ran /\ returncode("generate_headers.py") = 0
        icons_data == load_metadata(<<files.icons>>)[1]
    IN  /\ resources_dir_exists' = TRUE
        /\ include_dir_exists' = TRUE
        /\ icons_json' = <<files.icons>>
        /\ categories_json' = <<files.categories>>
        /\ tags_json' = <<files.tags>>
        /\ qrc' = IF qrc_ran /\ qrc = <<>>
                  THEN <<generate_qrc(icons_data)>> ELSE qrc
        /\ IF headers_ran
           THEN /\ enums_h' = <<generate_enums_header(icons_data)>>
                /\ strings_h' = <<generate_strings_header(icons_data)>>
           ELSE UNCHANGED <<enums_h, strings_h>>
        /\ build_all_result' = <<headers_ran>>

\* QtLucideResourceBuilder(project_root).build_all() with files the metadata
\* generate_metadata_from_svg writes: the metadata, then generate_qrc.py and
\* generate_headers.py as sub-processes, the build given up at the first one
\* that does not exit with 0
BuildAll(files) ==
    LET qrc_ran == returncode("generate_qrc.py") = 0
        headers_ran == qrc_ran /\ returncode("generate_headers.py") = 0
        icons_data == load_metadata(<<files.icons>>)[1]
    IN  /\ resources_dir_exists' = TRUE
        /\ include_dir_exists' = TRUE
        /\ icons_json' = <<files.icons>>
        /\ categories_json' = <<files.categories>>
        /\ tags_json' = <<files.tags>>
        /\ qrc' = IF qrc_ran THEN <<generate_qrc(icons_data)>> ELSE qrc
        /\ IF headers_ran
           THEN /\ enums_h' = <<generate_enums_header(icons_data)>>
                /\ strings_h' = <<generate_strings_header(icons_data)>>
           ELSE UNCHANGED <<enums_h, strings_h>>
        /\ build_all_result' = <<headers_ran>>

\* build_resources.py main: build_all of a new QtLucideResourceBuilder,
\* sys.exit(1) when it returns False
build_all ==
    \E files \in MetadataFilesOf(ScannedDir) :
        /\ BuildAll(files)
        /\ steps' = Stages
        /\ exit_code' = <<IF build_all_result'[1] THEN 0 ELSE 1>>
        /\ UNCHANGED <<svg_dir, edits, svg_dir_exists, tools_dir, call_vars,
                       validator_vars, stamp_file, example_icons, suggestions,
                       fix_file>>

InitBuild ==
    /\ svg_dir_exists \in BOOLEAN
    /\ svg_dir \in IF svg_dir_exists THEN Directories ELSE {{}}
    /\ resources_dir_exists = svg_dir_exists
    /\ include_dir_exists = FALSE
    /\ tools_dir \in SUBSET Tools
    /\ edits = 0
    /\ icons_json = <<>>
    /\ categories_json = <<>>
    /\ tags_json = <<>>
    /\ qrc = <<>>
    /\ enums_h = <<>>
    /\ strings_h = <<>>
    /\ NothingRun
    /\ name = <<>>
    /\ enum_name = <<>>
    /\ categories = <<>>
    /\ tags = <<>>
    /\ sources = [path \in Paths |-> <<>>]
    /\ IconUsageValidator

NextBuild == build_all \/ AddSvg \/ RemoveSvg

SpecBuild == InitBuild /\ [][NextBuild]_vars

-----------------------------------------------------------------------------
(* tools/validate_icon_usage.py: the regular expressions                   *)

\* the two quote characters
Quotes == {"\"", "'"}

\* [a-z0-9-]
NameChars == Range(LowerCase) \cup Range(Digits) \cup {"-"}

\* the first position from p on whose character is not in class: where a
\* greedy class* that starts at p ends
RECURSIVE RunEnd(_, _, _)
RunEnd(s, p, class) ==
    IF p <= Len(s) /\ s[p] \in class THEN RunEnd(s, p + 1, class) ELSE p

\* the same for a negated class [^...]
RECURSIVE RunEndOutside(_, _, _)
RunEndOutside(s, p, class) ==
    IF p <= Len(s) /\ s[p] \notin class
    THEN RunEndOutside(s, p + 1, class) ELSE p

\* the text prefix stands at position p of s
StartsWith(s, p, prefix) ==
    /\ p + Len(prefix) - 1 <= Len(s)
    /\ SubSeq(s, p, p + Len(prefix) - 1) = prefix

\* q([a-z][a-z0-9-]*[a-z0-9])q matched at position p, q a quote character:
\* the position of the closing quote, 0 when there is no match
QuotedNameEnd(line, p, q) ==
    IF p + 1 <= Len(line) /\ line[p] = q /\ line[p + 1] \in Range(LowerCase)
    THEN LET e == RunEnd(line, p + 2, NameChars)
         IN  IF /\ e <= Len(line)
                /\ line[e] = q
                /\ e - 1 >= p + 2
                /\ line[e - 1] # "-"
             THEN e ELSE 0
    ELSE 0

\* re.findall of that pattern from position p on
RECURSIVE FindQuotedNames(_, _, _)
FindQuotedNames(line, p, q) ==
    IF p > Len(line) THEN <<>>
    ELSE LET e == QuotedNameEnd(line, p, q)
         IN  IF e = 0 THEN FindQuotedNames(line, p + 1, q)
             ELSE <<SubSeq(line, p + 1, e - 1)>>
                      \o FindQuotedNames(line, e + 1, q)

\* string_patterns
string_patterns == <<"\"", "'">>

\* qtlucide_patterns: the text before \s*\(, followed by \w+ or not
qtlucide_patterns ==
    << [prefix |-> <<".", "i", "c", "o", "n">>, word |-> FALSE],
       [prefix |-> <<".", "s", "e", "t", "I", "c", "o", "n">>, word |-> FALSE],
       [prefix |-> <<"Q", "t", "L", "u", "c", "i", "d", "e", ":", ":">>, word |-> TRUE] >>

\* the position after the method name of pattern matched at p, 0 without match
MethodEnd(line, p, pattern) ==
    IF ~StartsWith(line, p, pattern.prefix) THEN 0
    ELSE LET a == p + Len(pattern.prefix)
         IN  IF ~pattern.word THEN a
             ELSE IF RunEnd(line, a, IdentChars) > a
                  THEN RunEnd(line, a, IdentChars) ELSE 0

\* the group taken from the opening quote on
CallArgument_from_quote(line, a) ==
    LET b == RunEnd(line, a, Whitespace)
        c == RunEnd(line, b + 1, Whitespace)
        d == RunEndOutside(line, c + 1, Quotes)
    IN  IF /\ b <= Len(line)
           /\ line[b] = "("
           /\ c <= Len(line)
           /\ line[c] \in Quotes
           /\ d > c + 1
           /\ d <= Len(line)
        THEN <<c, d - 1>> ELSE <<>>

\* \s*\(\s*["']([^"']+)["'] matched at position a: <<first, last>> position
\* of the group, <<>> when there is no match
CallArgument(line, a) ==
    LET b == RunEnd(line, a, Whitespace)
        c == RunEnd(line, b + 1, Whitespace)
        d == RunEndOutside(line, c + 1, Quotes)
    IN  IF /\ b <= Len(line)
           /\ line[b] = "("
           /\ c <= Len(line)
           /\ line[c] \in Quotes
           /\ d > c + 1
           /\ d <= Len(line)
        THEN <<c + 1, d - 1>> ELSE <<>>

\* re.findall of one of the qtlucide_patterns from position p on
RECURSIVE FindCallArguments(_, _, _)
FindCallArguments(line, p, pattern) ==
    IF p > Len(line) THEN <<>>
    ELSE LET a == MethodEnd(line, p, pattern)
             group == IF a = 0 THEN <<>> ELSE CallArgument(line, a)
         IN  IF group = <<>> THEN FindCallArguments(line, p + 1, pattern)
             ELSE <<SubSeq(line, group[1], group[2])>>
                      \o FindCallArguments(line, group[2] + 2, pattern)

\* \{Icons::\w+,\s*"([^"]+)"\} matched at position p of the header text:
\* <<first, last>> position of the group, <<>> when there is no match
MappingEntry(content, p) ==
    IF ~StartsWith(content, p, <<"{", "I", "c", "o", "n", "s", ":", ":">>) THEN <<>>
    ELSE LET a == p + 8
             w == RunEnd(content, a, IdentChars)
             b == RunEnd(content, w + 1, Whitespace \cup {"\n"})
             d == RunEndOutside(content, b + 1, {"\""})
         IN  IF /\ w > a
                /\ w <= Len(content)
                /\ content[w] = ","
                /\ b <= Len(content)
                /\ content[b] = "\""
                /\ d > b + 1
                /\ d + 1 <= Len(content)
                /\ content[d + 1] = "}"
             THEN <<b + 1, d - 1>> ELSE <<>>

\* re.findall(pattern, content) of _load_from_strings_header
RECURSIVE FindMappingEntries(_, _)
FindMappingEntries(content, p) ==
    IF p > Len(content) THEN <<>>
    ELSE LET group == MappingEntry(content, p)
         IN  IF group = <<>> THEN FindMappingEntries(content, p + 1)
             ELSE <<SubSeq(content, group[1], group[2])>>
                      \o FindMappingEntries(content, group[2] + 3)

\* the text generate_strings_header puts in place of {{STRING_MAPPINGS}}:
\* the lines '    {Icons::<enum_name>, "<icon_name>"}' joined by ",\n"
RECURSIVE StringMappings(_)
StringMappings(entries) ==
    IF entries = <<>> THEN <<>>
    ELSE <<" ", " ", " ", " ", "{", "I", "c", "o", "n", "s", ":", ":">> \o Head(entries).enum_name \o <<",", " ", "\"">>
             \o Head(entries).icon_name \o <<"\"", "}">>
             \o (IF Len(entries) = 1 THEN <<>> ELSE <<",", "\n">>)
             \o StringMappings(Tail(entries))

-----------------------------------------------------------------------------
(* tools/validate_icon_usage.py: IconUsageValidator                        *)

\* non_icon_words
non_icon_words ==
    { <<"e", "r", "r", "o", "r">>, <<"w", "a", "r", "n", "i", "n", "g">>, <<"i", "n", "f", "o">>, <<"d", "e", "b", "u", "g">>, <<"t", "e", "s", "t">>, <<"e", "x", "a", "m", "p", "l", "e">>,
      <<"s", "a", "m", "p", "l", "e">>, <<"m", "a", "i", "n">>, <<"w", "i", "n", "d", "o", "w">>, <<"w", "i", "d", "g", "e", "t">>, <<"b", "u", "t", "t", "o", "n">>, <<"l", "a", "b", "e", "l">>,
      <<"l", "a", "y", "o", "u", "t">>, <<"d", "i", "a", "l", "o", "g">>, <<"a", "p", "p", "l", "i", "c", "a", "t", "i", "o", "n">>, <<"v", "e", "r", "s", "i", "o", "n">>, <<"a", "u", "t", "h", "o", "r">>,
      <<"l", "i", "c", "e", "n", "s", "e">>, <<"c", "o", "p", "y", "r", "i", "g", "h", "t">>, <<"t", "r", "u", "e">>, <<"f", "a", "l", "s", "e">>, <<"n", "u", "l", "l">>, <<"u", "n", "d", "e", "f", "i", "n", "e", "d">>,
      <<"n", "o", "n", "e">>, <<"e", "m", "p", "t", "y">>, <<"c", "o", "l", "o", "r">>, <<"s", "i", "z", "e">>, <<"w", "i", "d", "t", "h">>, <<"h", "e", "i", "g", "h", "t">>,
      <<"o", "p", "a", "c", "i", "t", "y">>, <<"s", "c", "a", "l", "e", "-", "f", "a", "c", "t", "o", "r">>, <<"g", "e", "o", "m", "e", "t", "r", "y">>, <<"i", "c", "o", "n">>, <<"s", "v", "g">>, <<"p", "n", "g">>,
      <<"i", "c", "o">>, <<"p", "d", "f">>, <<"i", "c", "n", "s">>, <<"s", "e", "l", "e", "c", "t", "e", "d">>, <<"h", "o", "v", "e", "r", "e", "d">>, <<"f", "a", "v", "o", "r", "i", "t", "e">>,
      <<"n", "a", "m", "e">>, <<"f", "o", "r", "m", "a", "t">>, <<"m", "o", "d", "e">>, <<"c", "l", "i", "c", "k", "e", "d">>, <<"a", "b", "o", "u", "t">>, <<"v", "a", "l", "u", "e">>,
      <<"c", "o", "u", "n", "t">>, <<"i", "c", "o", "n", "s">>, <<"p", "x">>, <<"m", "s">>, <<"t", "h", "e", "m", "e">>, <<"s", "y", "s", "t", "e", "m">>, <<"l", "i", "g", "h", "t">>,
      <<"d", "a", "r", "k">>, <<"c", "o", "m", "p", "a", "c", "t">>, <<"g", "r", "i", "d">>, <<"l", "a", "n", "g", "u", "a", "g", "e">>, <<"e", "n">>, <<"b", "l", "a", "c", "k">>, <<"w", "h", "i", "t", "e">>,
      <<"n", "o", "n", "-", "e", "x", "i", "s", "t", "e", "n", "t", "-", "i", "c", "o", "n">>, <<"t", "e", "s", "t", "-", "i", "c", "o", "n">>, <<"i", "n", "v", "a", "l", "i", "d", "-", "i", "c", "o", "n">>, <<"e", "x", "a", "m", "p", "l", "e", "-", "i", "c", "o", "n">>,
      <<"h", "e", "a", "r", "t", "-", "i", "c", "o", "n">>, <<"i", "c", "o", "n", "-", "h", "e", "a", "r", "t">>, <<"t", "e", "s", "t", "-", "n", "u", "l", "l">>, <<"n", "o", "t", "-", "a", "-", "c", "o", "l", "o", "r">>,
      <<"n", "o", "t", "-", "a", "-", "n", "u", "m", "b", "e", "r">>, <<"c", "o", "r", "r", "u", "p", "t", "e", "d", "-", "t", "e", "s", "t">>, <<"n", "u", "l", "l", "-", "p", "a", "i", "n", "t", "e", "r">>,
      <<"i", "n", "v", "a", "l", "i", "d", "-", "p", "a", "i", "n", "t", "e", "r">>, <<"e", "x", "c", "e", "p", "t", "i", "o", "n", "-", "p", "a", "i", "n", "t", "e", "r">>, <<"t", "e", "s", "t", "-", "p", "a", "i", "n", "t", "e", "r">>,
      <<"m", "e", "m", "o", "r", "y", "-", "t", "e", "s", "t", "-", "p", "a", "i", "n", "t", "e", "r">>, <<"r", "e", "p", "l", "a", "c", "e", "m", "e", "n", "t", "-", "p", "a", "i", "n", "t", "e", "r">>, <<"l", "i", "f", "e", "t", "i", "m", "e", "-", "p", "a", "i", "n", "t", "e", "r">>,
      <<"n", "o", "n", "-", "e", "x", "i", "s", "t", "e", "n", "t">>, <<"i", "n", "v", "a", "l", "i", "d">>, <<"u", "n", "k", "n", "o", "w", "n">>, <<"h", "i", "g", "h", "-", "c", "o", "n", "t", "r", "a", "s", "t">>,
      <<"c", "o", "l", "o", "r", "-", "d", "i", "s", "a", "b", "l", "e", "d">>, <<"t", "e", "s", "t", "-", "o", "p", "t", "i", "o", "n">>, <<"t", "e", "s", "t", "-", "v", "a", "l", "u", "e">>, <<"r", "a", "c", "e", "-", "p", "a", "i", "n", "t", "e", "r">>,
      <<"e", "x", "t", "r", "e", "m", "e", "-", "p", "a", "i", "n", "t", "e", "r">>, <<"m", "e", "m", "o", "r", "y", "-", "p", "a", "i", "n", "t", "e", "r">>, <<"s", "l", "o", "w", "-", "p", "a", "i", "n", "t", "e", "r">>,
      <<"c", "a", "t", "e", "g", "o", "r", "i", "e", "s">>, <<"c", "o", "n", "t", "r", "i", "b", "u", "t", "o", "r", "s">>, <<"f", "a", "v", "o", "r", "i", "t", "e", "s">>, <<"t", "i", "m", "e", "s", "t", "a", "m", "p">>, <<"u", "s", "a", "g", "e">>,
      <<"r", "e", "c", "e", "n", "t">>, <<"c", "r", "i", "t", "e", "r", "i", "a">>, <<"q", "u", "o", "t", "e", "s">>, <<"w", "i", "t", "h">>, <<"n", "e", "s", "t", "e", "d">>, <<"l", "e", "v", "e", "l", "1">>,
      <<"l", "e", "v", "e", "l", "2">>, <<"l", "e", "v", "e", "l", "3">>, <<"v", "a", "l", "u", "e", "1">>, <<"v", "a", "l", "u", "e", "2">>, <<"i", "n", "n", "e", "r">>, <<"x", "6", "4">>,
      <<"a", "r", "r", "o", "w", "s">>, <<"c", "o", "m", "m", "u", "n", "i", "c", "a", "t", "i", "o", "n">>, <<"m", "e", "d", "i", "a">>, <<"c", "a", "l">>, <<"a", "r", "r", "o", "w">> }

\* the check without the list of non-icon words
_looks_like_icon_name_any_word(nm) ==
    /\ Len(nm) >= 2
    /\ Len(nm) <= 50
    /\ nm[1] \in Range(LowerCase)
    /\ \A i \in DOMAIN nm : nm[i] \in NameChars
    /\ nm[Len(nm)] # "-"

\* IconUsageValidator._looks_like_icon_name
_looks_like_icon_name(nm) ==
    /\ Len(nm) >= 2
    /\ Len(nm) <= 50
    /\ nm[1] \in Range(LowerCase)
    /\ \A i \in DOMAIN nm : nm[i] \in NameChars
    /\ nm[Len(nm)] # "-"
    /\ nm \notin non_icon_words

\* the matches scan_file_for_icons takes from one line: those of the two
\* string_patterns that look like icon names, then all of those of the three
\* qtlucide_patterns
LineMatches(line) ==
    SelectSeq(FindQuotedNames(line, 1, string_patterns[1]), _looks_like_icon_name)
        \o SelectSeq(FindQuotedNames(line, 1, string_patterns[2]),
                     _looks_like_icon_name)
        \o FindCallArguments(line, 1, qtlucide_patterns[1])
        \o FindCallArguments(line, 1, qtlucide_patterns[2])
        \o FindCallArguments(line, 1, qtlucide_patterns[3])

\* for line_num, line in enumerate(lines, 1): icon_usages.append((match, line_num))
RECURSIVE ScanLines(_, _)
ScanLines(lines, line_num) ==
    IF line_num > Len(lines) THEN <<>>
    ELSE LET matches == LineMatches(lines[line_num])
         IN  [i \in DOMAIN matches |-> <<matches[i], line_num>>]
                 \o ScanLines(lines, line_num + 1)

\* IconUsageValidator.scan_file_for_icons
scan_file_for_icons(file_path) == ScanLines(sources[file_path], 1)

\* the default of the parameter extensions of scan_directory
extensions == <<<<".", "c", "p", "p">>, <<".", "h">>, <<".", "h", "p", "p">>, <<".", "c", "c">>, <<".", "c", "x", "x">>>>

\* s ends with suffix
EndsWith(s, suffix) ==
    /\ Len(suffix) <= Len(s)
    /\ SubSeq(s, Len(s) - Len(suffix) + 1, Len(s)) = suffix

\* directory.rglob("*" + ext)
rglob(directory, ext) ==
    {path \in Paths :
        StartsWith(path, 1, directory \o <<"/">>) /\ EndsWith(path, ext)}

\* the orders in which the two loops of scan_directory can reach the files
RECURSIVE VisitOrders(_, _)
VisitOrders(directory, exts) ==
    IF exts = <<>> THEN {<<>>}
    ELSE {first \o rest : first \in Orders(rglob(directory, Head(exts))),
                          rest \in VisitOrders(directory, Tail(exts))}

\* self.icon_usage[icon_name].append((rel_path, line_num)) for every usage
RECURSIVE RecordUsages(_, _, _)
RecordUsages(usage, rel_path, usages) ==
    IF usages = <<>> THEN usage
    ELSE RecordUsages(AppendTo(usage, Head(usages)[1],
                               <<rel_path, Head(usages)[2]>>),
                      rel_path, Tail(usages))

\* the files scanned one after the other
RECURSIVE ScanFiles(_, _)
ScanFiles(usage, paths) ==
    IF paths = <<>> THEN usage
    ELSE ScanFiles(RecordUsages(usage, Head(paths),
                                scan_file_for_icons(Head(paths))),
                   Tail(paths))

\* IconUsageValidator.scan_directory: the values self.icon_usage can have
\* after it, usage being its value before
scan_directory(directory, usage) ==
    {ScanFiles(usage, paths) : paths \in VisitOrders(directory, extensions)}

\* the keys of the JSON objects of the model, as str
KeyText == [icons |-> <<"i", "c", "o", "n", "s">>, count |-> <<"c", "o", "u", "n", "t">>, version |-> <<"v", "e", "r", "s", "i", "o", "n">>]

\* IconUsageValidator._load_from_strings_header
_load_from_strings_header(file) ==
    [ok              |-> TRUE,
     available_icons |-> Range(FindMappingEntries(StringMappings(file[1]), 1)),
     loaded_from     |-> <<"QtLucideStrings.h">>]

\* IconUsageValidator._load_from_metadata: set(metadata.keys()) of the
\* JSON object, False when json.load raises
_load_from_metadata(file) ==
    IF file[1] = Unparsable
    THEN [ok |-> FALSE, available_icons |-> {}, loaded_from |-> <<>>]
    ELSE [ok              |-> TRUE,
          available_icons |-> {KeyText[k] : k \in DOMAIN file[1]},
          loaded_from     |-> <<"icons.json">>]

\* IconUsageValidator._load_from_svg_files
_load_from_svg_files(dir) ==
    [ok |-> TRUE, available_icons |-> dir, loaded_from |-> <<"svg">>]

\* load_available_icons that tries the metadata store first
load_available_icons_store_first ==
    IF icons_json # <<>> THEN _load_from_metadata(icons_json)
    ELSE IF strings_h # <<>> THEN _load_from_strings_header(strings_h)
    ELSE IF svg_dir_exists THEN _load_from_svg_files(svg_dir)
    ELSE [ok |-> FALSE, available_icons |-> {}, loaded_from |-> <<>>]

\* IconUsageValidator.load_available_icons
load_available_icons ==
    IF strings_h # <<>> THEN _load_from_strings_header(strings_h)
    ELSE IF icons_json # <<>> THEN _load_from_metadata(icons_json)
    ELSE IF svg_dir_exists THEN _load_from_svg_files(svg_dir)
    ELSE [ok |-> FALSE, available_icons |-> {}, loaded_from |-> <<>>]

\* the pieces name.split("-") yields
RECURSIVE SplitOnHyphen(_, _)
SplitOnHyphen(nm, word) ==
    IF nm = <<>> THEN {word}
    ELSE IF Head(nm) = "-" THEN {word} \cup SplitOnHyphen(Tail(nm), <<>>)
    ELSE SplitOnHyphen(Tail(nm), Append(word, Head(nm)))

\* IconUsageValidator._words_similarity(name1, name2) > 0.5
WordsSimilar(name1, name2) ==
    LET words1 == SplitOnHyphen(name1, <<>>)
        words2 == SplitOnHyphen(name2, <<>>)
    IN  2 * Cardinality(words1 \cap words2) > Cardinality(words1 \cup words2)

\* the available names suggest_corrections collects for invalid_icon
SuggestionsFor(invalid_icon, available) ==
    {a \in available :
        \/ Contains(a, invalid_icon)
        \/ Contains(invalid_icon, a)
        \/ WordsSimilar(invalid_icon, a)}

\* validate_usage that lets a name pass when there is a suggestion for it
validate_usage_forgiving(usage, available) ==
    SelectSeq(usage, LAMBDA item :
        /\ item.label \notin available
        /\ SuggestionsFor(item.label, available) = {})

\* IconUsageValidator.validate_usage: the dict self.invalid_icons
validate_usage(usage, available) ==
    SelectSeq(usage, LAMBDA item : item.label \notin available)

\* validate_icon_usage.py main: run_validation of a new IconUsageValidator,
\* then sys.exit(0) or sys.exit(1)
run_validation ==
    LET loaded == load_available_icons
    IN  /\ available_icons' = loaded.available_icons
        /\ loaded_from' = loaded.loaded_from
        /\ IF ~loaded.ok
           THEN /\ icon_usage' = <<>>
                /\ invalid_icons' = <<>>
                /\ is_valid' = <<FALSE>>
                /\ exit_code' = <<1>>
           ELSE \E examples \in scan_directory(<<"e", "x", "a", "m", "p", "l", "e", "s">>, <<>>) :
                    \E usage \in scan_directory(<<"t", "e", "s", "t", "s">>, examples) :
                        LET invalid == validate_usage(usage, loaded.available_icons)
                        IN  /\ icon_usage' = usage
                            /\ invalid_icons' = invalid
                            /\ is_valid' = <<invalid = <<>>>>
                            /\ exit_code' = <<IF invalid = <<>> THEN 0 ELSE 1>>
        /\ UNCHANGED <<pipeline_vars, call_vars, dir_vars, build_all_result,
                       sources, tool_vars>>

-----------------------------------------------------------------------------
(* The validator on a project.                                             *)

\* a quoted string of 51 characters
LongName == [i \in 1..51 |-> "a"]

\* the lines the source files are written from
SourceLines ==
    { <<"b", ".", "s", "e", "t", "I", "c", "o", "n", "(", "\"", "p", "e", "n", "\"", ")", ";", " ", "s", " ", "=", " ", "\"", "z", "e", "b", "r", "a", "\"", ";">>,
      <<"l", ".", "i", "c", "o", "n", "(", " ", "\"", "a", "!", "b", "\"", " ", ")">>,
      <<"b", ".", "s", "e", "t", "I", "c", "o", "n", "(", "\"", "i", "c", "o", "n", "\"", ")">>,
      <<"Q", "t", "L", "u", "c", "i", "d", "e", ":", ":", "i", "c", "o", "n", "(", "'", "p", "e", "n", "-", "o", "f", "f", "'", ")">>,
      <<"f", "(", "\"", "t", "e", "s", "t", "\"", ",", " ", "\"", "S", "a", "v", "e", " ", "A", "s", "\"", ")">>,
      <<"\"">> \o LongName \o <<"\"">> }

\* the source files that are written line by line
WrittenPaths == {<<"e", "x", "a", "m", "p", "l", "e", "s", "/", "m", "a", "i", "n", ".", "c", "p", "p">>, <<"t", "e", "s", "t", "s", "/", "t", "e", "s", "t", "_", "i", "c", "o", "n", "s", ".", "h">>}

\* the source trees of at most n lines
RECURSIVE SourceTrees(_)
SourceTrees(n) ==
    IF n = 0
    THEN {[path \in Paths |->
              IF path \in WrittenPaths THEN <<>>
              ELSE << <<"s", "e", "e", " ", "\"", "h", "e", "a", "r", "t", "-", "b", "r", "o", "k", "e", "n", "\"">> >>]}
    ELSE SourceTrees(n - 1) \cup
         {[tree EXCEPT ![path] = Append(@, line)] :
             tree \in SourceTrees(n - 1), path \in WrittenPaths,
             line \in SourceLines}

\* the names of the artifacts the validator finds
ValidatorDirectories ==
    [header |-> {{}, {<<"a", "!", "b">>, <<"p", "e", "n">>, <<"z", "e", "b", "r", "a">>}},
     store  |-> {{<<"a", "!", "b">>, <<"p", "e", "n">>, <<"z", "e", "b", "r", "a">>}},
     svg    |-> {{<<"a", "_", "b">>, <<"p", "e", "n", "-", "o", "f", "f">>}}]

\* a store generate_metadata_from_svg writes for the directory
StoreOf(dir) == (CHOOSE files \in MetadataFilesOf(dir) : TRUE).icons

InitValidate ==
    /\ \E old \in {<<>>} \cup {<<StoreOf(d)>> : d \in ValidatorDirectories.header} :
           /\ enums_h = IF old = <<>> THEN <<>>
                        ELSE <<generate_enums_header(old[1].icons)>>
           /\ strings_h = IF old = <<>> THEN <<>>
                          ELSE <<generate_strings_header(old[1].icons)>>
    /\ icons_json \in {<<>>, <<Unparsable>>}
                        \cup {<<StoreOf(d)>> : d \in ValidatorDirectories.store}
    /\ categories_json = <<>>
    /\ tags_json = <<>>
    /\ qrc = <<>>
    /\ svg_dir_exists \in BOOLEAN
    /\ svg_dir \in IF svg_dir_exists THEN ValidatorDirectories.svg ELSE {{}}
    /\ resources_dir_exists = (svg_dir_exists \/ icons_json # <<>>)
    /\ include_dir_exists = (strings_h # <<>>)
    /\ tools_dir = Tools
    /\ edits = 0
    /\ NothingRun
    /\ name = <<>>
    /\ enum_name = <<>>
    /\ categories = <<>>
    /\ tags = <<>>
    /\ sources \in SourceTrees(MaxLines)
    /\ IconUsageValidator

NextValidate == run_validation

SpecValidate == InitValidate /\ [][NextValidate]_vars

-----------------------------------------------------------------------------
(* The suggestion functions of the validator and of the example checker.   *)

\* suggestions[:5]
MaxSuggestions == 5

\* lst[:n]
Take(lst, n) == SubSeq(lst, 1, IF Len(lst) < n THEN Len(lst) ELSE n)

\* suggest_corrections without the limit of five
suggest_corrections_unlimited(invalid_icon, available) ==
    Orders(SuggestionsFor(invalid_icon, available))

\* IconUsageValidator.suggest_corrections(invalid_icon): the lists it can
\* return.  The loop appends the names SuggestionsFor collects in the order
\* in which the set self.available_icons is iterated, which can be any
suggest_corrections(invalid_icon, available) ==
    {Take(suggestions_list, MaxSuggestions) :
        suggestions_list \in Orders(SuggestionsFor(invalid_icon, available))}

\* suggest_similar_icons: common_mappings
common_mappings ==
    <<[key |-> <<"e", "d", "i", "t">>, icons |-> <<<<"p", "e", "n", "c", "i", "l">>, <<"p", "e", "n">>, <<"s", "q", "u", "a", "r", "e", "-", "p", "e", "n">>>>],
      [key |-> <<"h", "o", "m", "e">>, icons |-> <<<<"h", "o", "u", "s", "e">>, <<"h", "o", "u", "s", "e", "-", "p", "l", "u", "s">>>>],
      [key |-> <<"d", "e", "l", "e", "t", "e">>, icons |-> <<<<"t", "r", "a", "s", "h">>, <<"t", "r", "a", "s", "h", "-", "2">>>>],
      [key |-> <<"r", "e", "m", "o", "v", "e">>, icons |-> <<<<"x">>, <<"m", "i", "n", "u", "s">>, <<"t", "r", "a", "s", "h">>>>],
      [key |-> <<"a", "d", "d">>, icons |-> <<<<"p", "l", "u", "s">>, <<"p", "l", "u", "s", "-", "c", "i", "r", "c", "l", "e">>>>],
      [key |-> <<"c", "l", "o", "s", "e">>, icons |-> <<<<"x">>, <<"x", "-", "c", "i", "r", "c", "l", "e">>>>],
      [key |-> <<"o", "p", "t", "i", "o", "n", "s">>, icons |-> <<<<"s", "e", "t", "t", "i", "n", "g", "s">>, <<"c", "o", "g">>>>],
      [key |-> <<"c", "o", "n", "f", "i", "g">>, icons |-> <<<<"s", "e", "t", "t", "i", "n", "g", "s">>, <<"c", "o", "g">>>>],
      [key |-> <<"p", "r", "e", "f", "e", "r", "e", "n", "c", "e", "s">>, icons |-> <<<<"s", "e", "t", "t", "i", "n", "g", "s">>, <<"s", "l", "i", "d", "e", "r", "s", "-", "h", "o", "r", "i", "z", "o", "n", "t", "a", "l">>>>]>>

\* common_mappings[invalid_icon], <<>> when invalid_icon is no key
MappedTo(invalid_icon) ==
    IF \E m \in DOMAIN common_mappings : common_mappings[m].key = invalid_icon
    THEN common_mappings[CHOOSE m \in DOMAIN common_mappings :
                             common_mappings[m].key = invalid_icon].icons
    ELSE <<>>

\* suggest_similar_icons(invalid_icon, available_icons): the lists it can
\* return.  Both loops iterate the set available_icons in the same order,
\* which can be any; the names they append are disjoint, so each of the two
\* runs of names can come in any order
suggest_similar_icons(invalid_icon, available) ==
    LET mapped_suggestions ==
            SelectSeq(MappedTo(invalid_icon), LAMBDA icon : icon \in available)
        substring_matches ==
            {icon \in available \ Range(mapped_suggestions) :
                Contains(icon, invalid_icon) \/ Contains(invalid_icon, icon)}
        word_matches ==
            {icon \in (available \ Range(mapped_suggestions))
                      \ substring_matches :
                SplitOnHyphen(invalid_icon, <<>>)
                    \cap SplitOnHyphen(icon, <<>>) # {}}
    IN  {Take(mapped_suggestions \o first \o second, MaxSuggestions) :
            first \in Orders(substring_matches),
            second \in Orders(word_matches)}

\* the names an example or a test asks for that the catalogue does not hold
MisspeltNames == {<<"e", "d", "i", "t">>, <<"p", "e", "n", "-", "o", "f", "f", "-", "2">>}

\* names of the catalogue that a misspelt name brings up
SuggestionPool ==
    {<<"p", "e", "n", "c", "i", "l">>, <<"p", "e", "n">>, <<"s", "q", "u", "a", "r", "e", "-", "p", "e", "n">>, <<"e", "d", "i", "t", "-", "2">>, <<"p", "e", "n", "-", "o", "f", "f">>, <<"o", "f", "f", "-", "2">>,
     <<"o", "f", "f", "-", "p", "e", "n", "-", "2">>, <<"p", "e", "n", "-", "2", "-", "o", "f", "f">>, <<"2", "-", "p", "e", "n", "-", "o", "f", "f">>, <<"p", "e", "n", "-", "2", "-", "o", "n">>}

\* the catalogues of at most MaxAvailable names
AvailableSets ==
    {S \in SUBSET SuggestionPool : Cardinality(S) <= MaxAvailable}

InitSuggest ==
    /\ name \in MisspeltNames
    /\ available_icons \in AvailableSets
    /\ loaded_from = <<>>
    /\ icon_usage = <<>>
    /\ invalid_icons = <<>>
    /\ is_valid = <<>>
    /\ sources = [path \in Paths |-> <<>>]
    /\ enum_name = <<>>
    /\ categories = <<>>
    /\ tags = <<>>
    /\ svg_dir = {}
    /\ edits = 0
    /\ icons_json = <<>>
    /\ categories_json = <<>>
    /\ tags_json = <<>>
    /\ qrc = <<>>
    /\ enums_h = <<>>
    /\ strings_h = <<>>
    /\ svg_dir_exists = FALSE
    /\ resources_dir_exists = FALSE
    /\ include_dir_exists = FALSE
    /\ tools_dir = Tools
    /\ NothingRun

\* print_report: self.suggest_corrections(icon_name) for an invalid name
CallSuggestCorrections ==
    /\ suggestions = <<>>
    /\ \E lst \in suggest_corrections(name, available_icons) :
           suggestions' = <<lst>>
    /\ UNCHANGED <<pipeline_vars, call_vars, dir_vars, exit_vars,
                   validator_vars, steps, stamp_file, example_icons,
                   fix_file>>

\* check_examples: suggest_similar_icons(icon_name, available_icons) for an
\* invalid name
CallSuggestSimilarIcons ==
    /\ suggestions = <<>>
    /\ \E lst \in suggest_similar_icons(name, available_icons) :
           suggestions' = <<lst>>
    /\ UNCHANGED <<pipeline_vars, call_vars, dir_vars, exit_vars,
                   validator_vars, steps, stamp_file, example_icons,
                   fix_file>>

NextSuggest == CallSuggestCorrections \/ CallSuggestSimilarIcons

SpecSuggest == InitSuggest /\ [][NextSuggest]_vars

-----------------------------------------------------------------------------
(* tools/check_example_icons.py and tools/build_resources_meson.py         *)

\* <<\s*"([a-z][a-z0-9-]*[a-z0-9])" matched at position p: <<first, last>>
\* position of the group, <<>> when there is no match
StreamedName(line, p) ==
    IF ~StartsWith(line, p, <<"<", "<">>) THEN <<>>
    ELSE LET b == RunEnd(line, p + 2, Whitespace)
             e == QuotedNameEnd(line, b, "\"")
         IN  IF e = 0 THEN <<>> ELSE <<b + 1, e - 1>>

\* re.findall of that pattern from position p on
RECURSIVE FindStreamedNames(_, _)
FindStreamedNames(line, p) ==
    IF p > Len(line) THEN <<>>
    ELSE LET group == StreamedName(line, p)
         IN  IF group = <<>> THEN FindStreamedNames(line, p + 1)
             ELSE <<SubSeq(line, group[1], group[2])>>
                      \o FindStreamedNames(line, group[2] + 2)

\* len(match) >= 2 and len(match) <= 30 and "-" in match or len(match) <= 15
LooksLikeIconName(match) ==
    \/ Len(match) >= 2 /\ Len(match) <= 30 /\ "-" \in Range(match)
    \/ Len(match) <= 15

\* extract_icon_list_from_cpp: the loop over the lines from line_num on,
\* entered with the value in_icon_list
RECURSIVE ExtractFrom(_, _, _)
ExtractFrom(lines, line_num, in_icon_list) ==
    IF line_num > Len(lines) THEN <<>>
    ELSE LET line == lines[line_num]
             started ==
                 \/ in_icon_list
                 \/ /\ Contains(line, <<"m", "_", "s", "a", "m", "p", "l", "e", "I", "c", "o", "n", "s">>)
                       \/ Contains(line, <<"s", "a", "m", "p", "l", "e", "I", "c", "o", "n", "s">>)
                    /\ Contains(line, <<"<", "<">>)
             matches ==
                 IF started
                 THEN SelectSeq(FindStreamedNames(line, 1), LooksLikeIconName)
                 ELSE <<>>
             ended ==
                 started /\ ";" \in Range(line) /\ ~Contains(line, <<"<", "<">>)
         IN  [i \in DOMAIN matches |-> <<matches[i], line_num>>]
                 \o ExtractFrom(lines, line_num + 1, started /\ ~ended)

\* extract_icon_list_from_cpp(file_path)
extract_icon_list_from_cpp(file_path) ==
    ExtractFrom(sources[file_path], 1, FALSE)

\* check_example_icons.py load_available_icons: the names of the mapping of
\* QtLucideStrings.h, set() when the file is not there
example_load_available_icons(file) ==
    IF file = <<>> THEN {}
    ELSE Range(FindMappingEntries(StringMappings(file[1]), 1))

\* check_examples: example_files
example_files ==
    << <<"e", "x", "a", "m", "p", "l", "e", "s", "/", "b", "a", "s", "i", "c", "_", "u", "s", "a", "g", "e", "/", "M", "a", "i", "n", "W", "i", "n", "d", "o", "w", ".", "c", "p", "p">>, <<"e", "x", "a", "m", "p", "l", "e", "s", "/", "g", "a", "l", "l", "e", "r", "y", "/", "m", "a", "i", "n", ".", "c", "p", "p">> >>

\* check_examples: the list invalid_icons of one file
ExampleInvalidIcons(icons, available) ==
    SelectSeq(icons, LAMBDA usage : usage[1] \notin available)

\* check_examples(project_root), extracted the icons of the example files
check_examples(available, extracted) ==
    /\ available # {}
    /\ \A i \in DOMAIN example_files :
           ExampleInvalidIcons(extracted[example_files[i]], available) = <<>>

\* generate_icon_fix_suggestions: common_mappings
fix_mappings ==
    SubSeq(common_mappings, 1, 6)
        \o <<[key |-> <<"m", "e", "n", "u">>, icons |-> <<<<"m", "e", "n", "u">>, <<"m", "o", "r", "e", "-", "h", "o", "r", "i", "z", "o", "n", "t", "a", "l">>>>]>>
        \o SubSeq(common_mappings, 7, 9)

\* generate_icon_fix_suggestions: the text of ICON_NAME_FIXES.md, a line for
\* each mapping with an existing option and the sorted available names
IconNameFixes(available) ==
    LET Existing(m) == SelectSeq(fix_mappings[m].icons,
                                 LAMBDA icon : icon \in available)
        lines == [m \in DOMAIN fix_mappings |->
                     [expected |-> fix_mappings[m].key,
                      existing_options |-> Existing(m)]]
    IN  [mappings |-> SelectSeq(lines, LAMBDA l : l.existing_options # <<>>),
         icons |-> sorted(CHOOSE order \in Orders(available) : TRUE)]

\* the stamp file after a run that did not touch it
Untouched(stamp) == IF stamp = <<>> THEN <<>> ELSE <<FALSE>>

\* a wrapper that touches the stamp file whatever the outcome
StampAfter_always_touched(stamp, success) == <<TRUE>>

\* the stamp file after a run of a wrapper that was given its path:
\* stamp_file.touch() on success only
StampAfter(stamp, success) == IF success THEN <<TRUE>> ELSE Untouched(stamp)

\* check_example_icons.py main with len(sys.argv) = argc
check_example_icons_main(argc) ==
    /\ IF argc < 2
       THEN /\ exit_code' = <<1>>
            /\ stamp_file' = Untouched(stamp_file)
            /\ UNCHANGED <<example_icons, fix_file>>
       ELSE LET available == example_load_available_icons(strings_h)
                extracted == [path \in Range(example_files) |->
                                 IF available = {} THEN <<>>
                                 ELSE extract_icon_list_from_cpp(path)]
                success == check_examples(available, extracted)
            IN  /\ example_icons' = <<extracted>>
                /\ fix_file' = IF available = {} THEN fix_file
                               ELSE <<IconNameFixes(available)>>
                /\ stamp_file' = IF argc > 2
                                 THEN StampAfter(stamp_file, success)
                                 ELSE Untouched(stamp_file)
                /\ exit_code' = <<IF success THEN 0 ELSE 1>>
    /\ UNCHANGED <<pipeline_vars, call_vars, dir_vars, build_all_result,
                   validator_vars, steps, suggestions>>

\* build_resources_meson.py main with len(sys.argv) = argc: build_resources.py
\* as a sub-process, the stamp file touched when it exited with 0
build_resources_meson_main(argc) ==
    /\ IF argc < 3
       THEN /\ exit_code' = <<1>>
            /\ steps' = <<>>
            /\ stamp_file' = Untouched(stamp_file)
            /\ UNCHANGED <<icons_json, categories_json, tags_json, qrc,
                           enums_h, strings_h, resources_dir_exists,
                           include_dir_exists, build_all_result>>
       ELSE \E files \in MetadataFilesOf(ScannedDir) :
                /\ BuildAll(files)
                /\ steps' = <<<<"build_resources.py",
                                 IF build_all_result'[1] THEN 0 ELSE 1>>>>
                /\ stamp_file' = StampAfter(stamp_file, build_all_result'[1])
                /\ exit_code' = <<IF build_all_result'[1] THEN 0 ELSE 1>>
    /\ UNCHANGED <<svg_dir, edits, svg_dir_exists, tools_dir, call_vars,
                   validator_vars, example_icons, suggestions, fix_file>>

\* the lines the example files are written from
ExampleLines ==
    { <<"m", "_", "s", "a", "m", "p", "l", "e", "I", "c", "o", "n", "s", " ", "<", "<", " ", "\"", "p", "e", "n", "\"", " ", "<", "<", " ", "\"", "z", "e", "b", "r", "a", "\"", ";">>,
      <<"s", "a", "m", "p", "l", "e", "I", "c", "o", "n", "s", " ", "<", "<", " ", "\"", "p", "e", "n", "-", "o", "f", "f", "\"", " ", " ", "<", "<", "\"", "p", "e", "n", "\"">>,
      <<"q", "D", "e", "b", "u", "g", "(", ")", " ", "<", "<", " ", "\"", "d", "o", "n", "e", "\"", ";">>,
      <<"s", "h", "o", "w", "(", ")", ";">> }

\* the example files of at most n lines
RECURSIVE ExampleTexts(_)
ExampleTexts(n) ==
    IF n = 0 THEN {<<>>}
    ELSE ExampleTexts(n - 1) \cup
         {Append(text, line) : text \in ExampleTexts(n - 1),
                               line \in ExampleLines}

\* the names of the SVG directory of the project the wrappers run on
WrapperDirectory == {<<"p", "e", "n">>, <<"p", "e", "n", "-", "o", "f", "f">>}

InitWrappers ==
    /\ svg_dir_exists = TRUE
    /\ svg_dir = WrapperDirectory
    /\ resources_dir_exists = TRUE
    /\ tools_dir \in SUBSET Tools
    /\ \E old \in {<<>>, <<StoreOf({<<"p", "e", "n">>, <<"z", "e", "b", "r", "a">>})>>} :
           /\ enums_h = IF old = <<>> THEN <<>>
                        ELSE <<generate_enums_header(old[1].icons)>>
           /\ strings_h = IF old = <<>> THEN <<>>
                          ELSE <<generate_strings_header(old[1].icons)>>
    /\ include_dir_exists = (strings_h # <<>>)
    /\ sources \in {[path \in Range(example_files) |->
                        IF path = example_files[1] THEN <<>> ELSE text] :
                        text \in ExampleTexts(MaxLines)}
    /\ stamp_file \in {<<>>, <<FALSE>>}
    /\ edits = 0
    /\ icons_json = <<>>
    /\ categories_json = <<>>
    /\ tags_json = <<>>
    /\ qrc = <<>>
    /\ exit_code = <<>>
    /\ build_all_result = <<>>
    /\ steps = <<>>
    /\ example_icons = <<>>
    /\ suggestions = <<>>
    /\ fix_file = <<>>
    /\ name = <<>>
    /\ enum_name = <<>>
    /\ categories = <<>>
    /\ tags = <<>>
    /\ IconUsageValidator

\* the values of len(sys.argv) of an invocation
ArgumentCounts == 1..3

NextWrappers ==
    \/ \E argc \in ArgumentCounts : check_example_icons_main(argc)
    \/ \E argc \in ArgumentCounts : build_resources_meson_main(argc)

SpecWrappers == InitWrappers /\ [][NextWrappers]_vars

-----------------------------------------------------------------------------
(* scripts/build_cmake.py and scripts/build_xmake.py                       *)

\* run_command, called for each command of the list in turn: the commands
\* that are started.  A command is a record of its text cmd, the return code
\* its process exits with, and the argument check; a non-zero return code of
\* a command run with check=True raises CalledProcessError inside
\* run_command, whose handler calls sys.exit(1), so no later command starts
RECURSIVE run_command(_)
run_command(commands) ==
    IF commands = <<>> THEN <<>>
    ELSE IF Head(commands).rc # 0 /\ Head(commands).check
         THEN <<Head(commands)>>
         ELSE <<Head(commands)>> \o run_command(Tail(commands))

\* the script left through sys.exit(1) of run_command
Exited(commands) ==
    \E i \in DOMAIN commands : commands[i].rc # 0 /\ commands[i].check

\* the commands as steps records them
Log(commands) ==
    [i \in DOMAIN commands |-> <<commands[i].cmd, commands[i].rc>>]

\* return codes of the external tools
ReturnCodes == {0, 1}

\* the effect on the project of the commands that were started: that of
\* build_resources.py when it is among them, run by the script or by the
\* task generate-resources of xmake
ResourcesBuiltBy(started) ==
    IF \E i \in DOMAIN started :
           started[i].cmd \in {"build_resources.py", "xmake generate-resources"}
    THEN \E files \in MetadataFilesOf(ScannedDir) : BuildAll(files)
    ELSE UNCHANGED <<icons_json, categories_json, tags_json, qrc, enums_h,
                     strings_h, resources_dir_exists, include_dir_exists,
                     build_all_result>>

\* the return code of build_resources.py run on the project as it is
BuilderReturnCode ==
    IF returncode("generate_qrc.py") = 0 /\ returncode("generate_headers.py") = 0
    THEN 0 ELSE 1

\* build_cmake.py main with the option --generate-resources given or not,
\* the other options at their defaults; build_script_exists the result of
\* build_script.exists() in generate_resources
build_cmake_main ==
    \E generate_resources, build_script_exists \in BOOLEAN :
      \E version, configure, build \in ReturnCodes :
        LET commands ==
                <<[cmd |-> "cmake --version", rc |-> version, check |-> TRUE]>>
                \o (IF generate_resources /\ build_script_exists
                    THEN <<[cmd |-> "build_resources.py",
                            rc |-> BuilderReturnCode, check |-> TRUE]>>
                    ELSE <<>>)
                \o <<[cmd |-> "cmake", rc |-> configure, check |-> TRUE],
                     [cmd |-> "cmake --build", rc |-> build, check |-> TRUE]>>
            started == run_command(commands)
        IN  /\ steps' = Log(started)
            /\ ResourcesBuiltBy(started)
            /\ exit_code' = <<IF Exited(started) THEN 1 ELSE 0>>
            /\ UNCHANGED <<svg_dir, edits, svg_dir_exists, tools_dir,
                           call_vars, validator_vars, stamp_file,
                           example_icons, suggestions, fix_file>>

\* build_xmake.py main with the option --generate-resources given or not,
\* the other options at their defaults; xmake_file_exists the result of
\* xmake_file.exists(), without which the script exits with 1 after the
\* version check.  The task generate-resources is taken to run
\* build_resources.py; the branch of generate_resources that runs the Python
\* script itself is entered on CalledProcessError, which run_command never
\* lets out with check=True
build_xmake_main ==
    \E generate_resources, xmake_file_exists \in BOOLEAN :
      \E version, configure, build \in ReturnCodes :
        LET commands ==
                <<[cmd |-> "xmake --version", rc |-> version, check |-> TRUE]>>
                \o (IF xmake_file_exists /\ generate_resources
                    THEN <<[cmd |-> "xmake generate-resources",
                            rc |-> BuilderReturnCode, check |-> TRUE]>>
                    ELSE <<>>)
                \o (IF xmake_file_exists
                    THEN <<[cmd |-> "xmake config", rc |-> configure,
                            check |-> TRUE],
                           [cmd |-> "xmake build", rc |-> build,
                            check |-> TRUE]>>
                    ELSE <<>>)
            started == run_command(commands)
        IN  /\ steps' = Log(started)
            /\ ResourcesBuiltBy(started)
            /\ exit_code' = <<IF Exited(started) \/ ~xmake_file_exists
                               THEN 1 ELSE 0>>
            /\ UNCHANGED <<svg_dir, edits, svg_dir_exists, tools_dir,
                           call_vars, validator_vars, stamp_file,
                           example_icons, suggestions, fix_file>>

InitScripts ==
    /\ svg_dir_exists = TRUE
    /\ svg_dir \in {d \in Directories : Cardinality(d) <= 1}
    /\ resources_dir_exists = TRUE
    /\ include_dir_exists = FALSE
    /\ tools_dir \in SUBSET Tools
    /\ edits = 0
    /\ icons_json = <<>>
    /\ categories_json = <<>>
    /\ tags_json = <<>>
    /\ qrc = <<>>
    /\ enums_h = <<>>
    /\ strings_h = <<>>
    /\ NothingRun
    /\ name = <<>>
    /\ enum_name = <<>>
    /\ categories = <<>>
    /\ tags = <<>>
    /\ sources = [path \in Paths |-> <<>>]
    /\ IconUsageValidator

NextScripts == build_cmake_main \/ build_xmake_main

SpecScripts == InitScripts /\ [][NextScripts]_vars

-----------------------------------------------------------------------------
(* Notions the properties are stated in.                                   *)

\* the icon names of the metadata store
StoreNames == {icons_json[1].icons[i].name : i \in DOMAIN icons_json[1].icons}

\* the icon names a written QtLucideStrings.h lists
HeaderNames(file) == {file[1][i].icon_name : i \in DOMAIN file[1]}

\* the icon names a written lucide_icons.qrc lists
QrcNames(file) == {file[1][i].alias : i \in DOMAIN file[1]}

\* the number of names of the set S that sort before nm
Rank(nm, S) == Cardinality({m \in S : StrLess(m, nm)})

\* the list holds no element twice
NoDuplicates(lst) == \A i, j \in DOMAIN lst : lst[i] = lst[j] => i = j

\* word occurs in nm as a run of consecutive characters
Occurs(word, nm) ==
    \E i, j \in 0..Len(nm) : j - i = Len(word) /\ SubSeq(nm, i + 1, j) = word

\* the pieces nm.split("-") yields, empty ones among them
HyphenTokens(nm) ==
    {SubSeq(nm, i + 1, j) : <<i, j>> \in
        {p \in (0..Len(nm)) \X (0..Len(nm)) :
            /\ p[1] <= p[2]
            /\ p[1] = 0 \/ nm[p[1]] = "-"
            /\ p[2] = Len(nm) \/ nm[p[2] + 1] = "-"
            /\ \A k \in (p[1] + 1)..p[2] : nm[k] # "-"}}

\* the group tags of the keyword groups that have a keyword occurring in nm
GroupTags(nm) ==
    {tag_keywords[g].tag : g \in
        {g \in DOMAIN tag_keywords :
            \E k \in DOMAIN tag_keywords[g].words :
                Occurs(tag_keywords[g].words[k], nm)}}

\* this step writes the two headers
HeadersWritten == enums_h' # enums_h \/ strings_h' # strings_h

-----------------------------------------------------------------------------
(* C1: two distinct icon names never yield the same generated symbol: no   *)
(* two enumeration constants and no two lookup-table entries of the        *)
(* written headers carry the same symbol.                                  *)
C1_SymbolsDistinct ==
    /\ enums_h # <<>> =>
         \A i, j \in DOMAIN enums_h[1].enum_values :
             i # j => enums_h[1].enum_values[i].enum_name
                        # enums_h[1].enum_values[j].enum_name
    /\ strings_h # <<>> =>
         \A i, j \in DOMAIN strings_h[1] :
             i # j => strings_h[1][i].enum_name # strings_h[1][j].enum_name

(* C2: when the headers are generated from a store of N names, the         *)
(* enumeration has N constants with the values 0..N-1 in increasing order, *)
(* the constant of each name carries the number of names that sort before  *)
(* it, and ICON_COUNT is N.                                                *)
C2_OrdinalsBySortedPosition ==
    [][HeadersWritten =>
         LET values == enums_h'[1].enum_values
             N == Cardinality(StoreNames)
         IN  /\ Len(values) = N
             /\ enums_h'[1].ICON_COUNT = N
             /\ \A i \in DOMAIN values : values[i].value = i - 1
             /\ \A nm \in StoreNames :
                    values[Rank(nm, StoreNames) + 1] =
                        [enum_name |-> _name_to_enum(nm),
                         value     |-> Rank(nm, StoreNames)]]_vars

\* a store of three names, not in sorted order, and the enumeration generated
\* from it
C2_Witness ==
    /\ icons_json # <<>>
    /\ enums_h # <<>>
    /\ Cardinality(StoreNames) = 3
    /\ HeaderNames(strings_h) = StoreNames
    /\ \E i \in 1..2 : StrLess(icons_json[1].icons[i + 1].name,
                               icons_json[1].icons[i].name)
    /\ enums_h[1].ICON_COUNT = 3

(* C3: the lookup tables are total and mutually inverse: the symbol->string *)
(* table has one entry per listed name, and every name maps to its symbol   *)
(* and its symbol back to the name.                                         *)
C3_LookupTablesInverse ==
    strings_h # <<>> =>
        LET to_string == ICON_TO_STRING_MAP(strings_h[1])
            to_icon == createStringToIconMap(to_string)
            names == HeaderNames(strings_h)
        IN  /\ Cardinality(DOMAIN to_string) = Cardinality(names)
            /\ \A nm \in names :
                   /\ nm \in DOMAIN to_icon
                   /\ to_icon[nm] = _name_to_enum(nm)
                   /\ to_string[_name_to_enum(nm)] = nm

(* C4: the symbol _name_to_enum returns for a non-empty name consists of   *)
(* characters of [A-Za-z0-9_] only, does not start with a digit and is no  *)
(* reserved word; it is the name with every other character replaced by   *)
(* "_", prefixed with Icon_ when that starts with a digit, and prefixed    *)
(* with icon_ when it is a reserved word.                                  *)
C4_SymbolIsIdentifier ==
    enum_name # <<>> =>
        LET symbol == enum_name[1]
            replaced == [i \in DOMAIN name |->
                            IF \/ \E k \in DOMAIN LowerCase : name[i] = LowerCase[k]
                               \/ \E k \in DOMAIN UpperCase : name[i] = UpperCase[k]
                               \/ \E k \in DOMAIN Digits : name[i] = Digits[k]
                               \/ name[i] = "_"
                            THEN name[i] ELSE "_"]
        IN  /\ symbol # <<>>
            /\ \A i \in DOMAIN symbol : symbol[i] \in IdentChars
            /\ symbol[1] \notin Range(Digits)
            /\ symbol \notin cpp_keywords
            /\ symbol =
                 IF replaced[1] \in Range(Digits) THEN <<"I", "c", "o", "n", "_">> \o replaced
                 ELSE IF replaced \in cpp_keywords THEN <<"i", "c", "o", "n", "_">> \o replaced
                 ELSE replaced

\* a name that starts with a digit and holds a character outside the class
C4_Witness ==
    /\ enum_name # <<>>
    /\ name[1] \in Range(Digits)
    /\ \E i \in DOMAIN name : name[i] \notin IdentChars
    /\ SubSeq(enum_name[1], 1, 5) = <<"I", "c", "o", "n", "_">>

(* C5: the enumeration, the lookup table and the manifest depend on the    *)
(* set of names of the store only: a generator run writes what it would    *)
(* write from the same records in any other order, and regenerating an     *)
(* artifact from a store with the names the artifact already lists leaves  *)
(* the artifact as it is.                                                  *)
C5_ArtifactsDependOnNameSetOnly ==
    [][/\ HeadersWritten =>
            \A other \in Orders(Range(icons_json[1].icons)) :
                /\ enums_h' = <<generate_enums_header(other)>>
                /\ strings_h' = <<generate_strings_header(other)>>
       /\ qrc' # qrc =>
            \A other \in Orders(Range(icons_json[1].icons)) :
                qrc' = <<generate_qrc(other)>>
       /\ (strings_h # <<>> /\ strings_h' # <<>>
             /\ HeaderNames(strings_h') = HeaderNames(strings_h)) =>
            (strings_h' = strings_h /\ enums_h' = enums_h)
       /\ (qrc # <<>> /\ qrc' # <<>> /\ QrcNames(qrc') = QrcNames(qrc)) =>
            qrc' = qrc]_vars

\* the three artifacts, generated from a store whose records are not in
\* sorted order
C5_Witness ==
    /\ icons_json # <<>>
    /\ Cardinality(StoreNames) >= 2
    /\ \E i \in DOMAIN icons_json[1].icons :
           /\ i + 1 \in DOMAIN icons_json[1].icons
           /\ StrLess(icons_json[1].icons[i + 1].name, icons_json[1].icons[i].name)
    /\ qrc # <<>> /\ QrcNames(qrc) = StoreNames
    /\ strings_h # <<>> /\ HeaderNames(strings_h) = StoreNames
    /\ enums_h # <<>>

(* C6: for a fixed set of files, running the pipeline again leaves         *)
(* icons.json, categories.json, tags.json, the enumeration and the lookup  *)
(* table as the run before wrote them.                                     *)
C6_PipelineDeterministic ==
    [][(icons_json # <<>> /\ StoreNames = svg_dir /\ svg_dir' = svg_dir) =>
          /\ icons_json' = icons_json
          /\ categories_json' = categories_json
          /\ tags_json' = tags_json
          /\ (strings_h # <<>> /\ HeaderNames(strings_h) = svg_dir) =>
                 (strings_h' = strings_h /\ enums_h' = enums_h)]_vars

(* C7: regenerating the headers after a name that sorts after every listed *)
(* name was added leaves the ordinal of every name listed before as it     *)
(* was.                                                                    *)
C7_OrdinalStableUnderLastName ==
    [][(/\ strings_h # <<>>
        /\ strings_h' # <<>>
        /\ \E new \in HeaderNames(strings_h') \ HeaderNames(strings_h) :
              /\ HeaderNames(strings_h') = HeaderNames(strings_h) \cup {new}
              /\ \A old \in HeaderNames(strings_h) : StrLess(old, new)) =>
          \A i \in DOMAIN strings_h[1] :
              \E j \in DOMAIN strings_h'[1] :
                  /\ strings_h'[1][j].icon_name = strings_h[1][i].icon_name
                  /\ enums_h'[1].enum_values[j] = enums_h[1].enum_values[i]]_vars

\* the headers list one name more than the manifest generated before the
\* name was added, and the name sorts after the others
C7_Witness ==
    /\ qrc # <<>>
    /\ strings_h # <<>>
    /\ Cardinality(QrcNames(qrc)) >= 2
    /\ \E new \in HeaderNames(strings_h) \ QrcNames(qrc) :
          /\ HeaderNames(strings_h) = QrcNames(qrc) \cup {new}
          /\ \A old \in QrcNames(qrc) : StrLess(old, new)
          /\ strings_h[1][Len(strings_h[1])].icon_name = new
          /\ enums_h[1].enum_values[Len(strings_h[1])].value = Len(qrc[1])

(* C8: _categorize_icon returns the labels whose keyword list has a        *)
(* keyword occurring in the name, each once, or general alone when there   *)
(* is none.                                                                *)
C8_CategoriesByKeyword ==
    categories # <<>> =>
        LET result == categories[1]
            earned == {category_keywords[c].category : c \in
                          {c \in DOMAIN category_keywords :
                              \E k \in DOMAIN category_keywords[c].keywords :
                                  Occurs(category_keywords[c].keywords[k], name)}}
        IN  /\ result # <<>>
            /\ NoDuplicates(result)
            /\ Range(result) \subseteq
                   { <<"n", "a", "v", "i", "g", "a", "t", "i", "o", "n">>, <<"f", "i", "l", "e", "s">>, <<"c", "o", "m", "m", "u", "n", "i", "c", "a", "t", "i", "o", "n">>, <<"m", "e", "d", "i", "a">>,
                     <<"s", "o", "c", "i", "a", "l">>, <<"s", "y", "s", "t", "e", "m">>, <<"e", "d", "i", "t", "i", "n", "g">>, <<"b", "u", "s", "i", "n", "e", "s", "s">>, <<"g", "e", "n", "e", "r", "a", "l">> }
            /\ Range(result) = IF earned = {} THEN { <<"g", "e", "n", "e", "r", "a", "l">> } ELSE earned
            /\ <<"g", "e", "n", "e", "r", "a", "l">> \in Range(result) => Len(result) = 1
            /\ name \in { <<"a", "r", "r", "o", "w", "-", "l", "e", "f", "t">>, <<"a", "r", "r", "o", "w", "-", "r", "i", "g", "h", "t">> } =>
                   result = << <<"n", "a", "v", "i", "g", "a", "t", "i", "o", "n">> >>
            /\ name = <<"z", "e", "b", "r", "a">> => result = << <<"g", "e", "n", "e", "r", "a", "l">> >>

\* a name that earns two categories
C8_Witness ==
    /\ categories # <<>>
    /\ name = <<"f", "i", "l", "e", "-", "u", "s", "e", "r">>
    /\ categories[1] = << <<"f", "i", "l", "e", "s">>, <<"s", "o", "c", "i", "a", "l">> >>

(* C9 as stated: the tags are the tokens obtained by splitting the name on *)
(* hyphens, each verbatim, and the group tags, without duplicates.         *)
C9_TagsSplitOnHyphens ==
    tags # <<>> =>
        /\ NoDuplicates(tags[1])
        /\ Range(tags[1]) = HyphenTokens(name) \cup GroupTags(name)

(* C9 amended: the tags are the non-empty tokens obtained by splitting the *)
(* name on hyphens and white space, and the group tags, without            *)
(* duplicates.                                                             *)
C9_TagsSplitOnHyphensAndSpace ==
    tags # <<>> =>
        LET sep == {"-", " "}
            tokens == {SubSeq(name, i, j) : <<i, j>> \in
                          {p \in (1..Len(name)) \X (1..Len(name)) :
                              /\ p[1] <= p[2]
                              /\ p[1] = 1 \/ name[p[1] - 1] \in sep
                              /\ p[2] = Len(name) \/ name[p[2] + 1] \in sep
                              /\ \A k \in p[1]..p[2] : name[k] \notin sep}}
        IN  /\ NoDuplicates(tags[1])
            /\ Range(tags[1]) = tokens \cup GroupTags(name)

\* a name whose token is also its group tag, listed once
C9_Witness ==
    /\ tags # <<>>
    /\ name = <<"f", "i", "l", "e", "s">>
    /\ tags[1] = << <<"f", "i", "l", "e", "s">> >>

(* C10: in the category index and the tag index the names under every     *)
(* label are in sorted order.                                              *)
C10_IndexNamesSorted ==
    /\ categories_json # <<>> =>
         \A e \in DOMAIN categories_json[1] :
             \A i, j \in DOMAIN categories_json[1][e].names :
                 i < j => StrLess(categories_json[1][e].names[i],
                                  categories_json[1][e].names[j])
    /\ tags_json # <<>> =>
         \A e \in DOMAIN tags_json[1] :
             \A i, j \in DOMAIN tags_json[1][e].names :
                 i < j => StrLess(tags_json[1][e].names[i],
                                  tags_json[1][e].names[j])

(* C11: the category index and the tag index are the exact inverse of the  *)
(* labels of the records: a name is listed under a label exactly when the  *)
(* record of the name carries the label, no name is listed twice under a   *)
(* label, no label has an empty list, and every name of the store is       *)
(* listed under at least one category.                                     *)
C11_IndicesInverseOfRecords ==
    icons_json # <<>> =>
        LET icons == icons_json[1].icons
            InverseOf(index, field) ==
                /\ \A e \in DOMAIN index :
                       /\ index[e].names # <<>>
                       /\ NoDuplicates(index[e].names)
                       /\ \A f \in DOMAIN index :
                              index[f].label = index[e].label => f = e
                       /\ \A k \in DOMAIN index[e].names :
                              \E i \in DOMAIN icons :
                                  /\ icons[i].name = index[e].names[k]
                                  /\ index[e].label \in Range(icons[i][field])
                /\ \A i \in DOMAIN icons :
                       \A l \in Range(icons[i][field]) :
                           \E e \in DOMAIN index :
                               /\ index[e].label = l
                               /\ icons[i].name \in Range(index[e].names)
        IN  /\ categories_json # <<>>
            /\ tags_json # <<>>
            /\ InverseOf(categories_json[1], "categories")
            /\ InverseOf(tags_json[1], "tags")
            /\ \A i \in DOMAIN icons :
                   \E e \in DOMAIN categories_json[1] :
                       icons[i].name \in Range(categories_json[1][e].names)

\* a store of three names with a record of two tags and a tag two names carry
C11_Witness ==
    /\ icons_json # <<>>
    /\ Len(icons_json[1].icons) = 3
    /\ \E i \in DOMAIN icons_json[1].icons : Len(icons_json[1].icons[i].tags) >= 2
    /\ \E e \in DOMAIN tags_json[1] : Len(tags_json[1][e].names) >= 2
    /\ \E e \in DOMAIN categories_json[1] : Len(categories_json[1][e].names) >= 2

(* C12: a run of the manifest generator emits exactly one file entry per   *)
(* name of the store, whose alias is the name, the entries in sorted name  *)
(* order, and no entry for a name outside the store.                       *)
C12_ManifestOneEntryPerName ==
    [][qrc' # qrc =>
         LET entries == qrc'[1]
         IN  /\ Len(entries) = Cardinality(StoreNames)
             /\ {entries[i].alias : i \in DOMAIN entries} = StoreNames
             /\ \A i, j \in DOMAIN entries :
                    i < j => StrLess(entries[i].alias, entries[j].alias)]_vars

\* a manifest of three entries, generated from a store that is not in sorted
\* order
C12_Witness ==
    /\ icons_json # <<>>
    /\ qrc # <<>>
    /\ Len(qrc[1]) = 3
    /\ QrcNames(qrc) = StoreNames
    /\ Keys(icons_json[1].icons) # sorted(Keys(icons_json[1].icons))

StoreUnusable ==
    \/ icons_json = <<>>
    \/ icons_json[1] = Unparsable
    \/ "icons" \notin DOMAIN icons_json[1]

(* C14: while icons.json is absent, unparsable or without the icons        *)
(* mapping, a run of the header generator or of the manifest generator     *)
(* ends with a non-zero exit status, creates no output directory, leaves   *)
(* every existing artifact as it was, creates no artifact and no store.    *)
C14_UnusableStoreIsHardError ==
    [][StoreUnusable =>
         /\ exit_code' # exit_code => exit_code' = <<1>>
         /\ UNCHANGED <<enums_h, strings_h, qrc, include_dir_exists,
                        resources_dir_exists, icons_json, categories_json,
                        tags_json>>]_vars

\* a generator has failed on a store without "icons", the headers of an
\* earlier run still there and no manifest
C14_Witness ==
    /\ icons_json = <<WithoutIcons>>
    /\ exit_code = <<1>>
    /\ enums_h # <<>>
    /\ strings_h # <<>>
    /\ qrc = <<>>

(* C15: when the SVG directory does not exist, build_all writes a store    *)
(* of zero icons with count 0 and empty indices and, the two generator     *)
(* scripts being there, an enumeration without constants with              *)
(* ICON_COUNT = 0, a lookup table and a manifest without entries, and      *)
(* returns success.                                                        *)
C15_MissingSvgDirBuildsEmpty ==
    [][~svg_dir_exists =>
         /\ icons_json' = <<[icons |-> <<>>, count |-> 0, version |-> "1.0.0"]>>
         /\ categories_json' = << <<>> >>
         /\ tags_json' = << <<>> >>
         /\ Tools \subseteq tools_dir =>
                /\ enums_h' = <<[enum_values |-> <<>>, ICON_COUNT |-> 0]>>
                /\ strings_h' = << <<>> >>
                /\ qrc' = << <<>> >>
                /\ exit_code' = <<0>>
                /\ build_all_result' = <<TRUE>>]_vars

\* build_all has returned success without an SVG directory
C15_Witness ==
    /\ ~svg_dir_exists
    /\ build_all_result = <<TRUE>>
    /\ icons_json # <<>>
    /\ icons_json[1].count = 0
    /\ enums_h # <<>>
    /\ enums_h[1].ICON_COUNT = 0
    /\ strings_h = << <<>> >>
    /\ qrc = << <<>> >>

\* the names usages are recorded of, and those recorded as invalid
UsedNames == {icon_usage[i].label : i \in DOMAIN icon_usage}

InvalidNames == {invalid_icons[i].label : i \in DOMAIN invalid_icons}

\* run_validation has returned, the available set loaded
Loaded == is_valid # <<>> /\ loaded_from # <<>>

\* the file is one run_validation scans: a C++ file under examples/ or tests/
Scanned(path) ==
    /\ StartsWith(path, 1, <<"e", "x", "a", "m", "p", "l", "e", "s", "/">>) \/ StartsWith(path, 1, <<"t", "e", "s", "t", "s", "/">>)
    /\ \E k \in DOMAIN extensions : EndsWith(path, extensions[k])

\* the string literals of a line from position p on: the texts between a
\* quote character and the next same one
RECURSIVE StringLiterals(_, _)
StringLiterals(line, p) ==
    IF p > Len(line) THEN {}
    ELSE IF line[p] \in Quotes
    THEN LET closing == {e \in (p + 1)..Len(line) : line[e] = line[p]}
             e == CHOOSE e \in closing : \A f \in closing : e <= f
         IN  IF closing = {} THEN {}
             ELSE {SubSeq(line, p + 1, e - 1)} \cup StringLiterals(line, e + 1)
    ELSE StringLiterals(line, p + 1)

\* every string literal of the scanned files is an available name
OnlyAvailableLiterals ==
    \A path \in Paths :
        Scanned(path) =>
            \A k \in DOMAIN sources[path] :
                StringLiterals(sources[path][k], 1) \subseteq available_icons

C17_AvailableSetIsNameSet ==
    is_valid # <<>> =>
        /\ loaded_from = <<"QtLucideStrings.h">> =>
               available_icons = HeaderNames(strings_h)
        /\ loaded_from = <<"icons.json">> => available_icons = StoreNames
        /\ loaded_from = <<"svg">> => available_icons = svg_dir

(* C18: load_available_icons reads one artifact, the first that exists of  *)
(* QtLucideStrings.h, icons.json and the SVG directory, and when none of   *)
(* them exists the load fails and the validation returns failure.          *)
C18_LoadPreferenceOrder ==
    is_valid # <<>> =>
        /\ strings_h # <<>> =>
               /\ loaded_from = <<"QtLucideStrings.h">>
               /\ available_icons = HeaderNames(strings_h)
        /\ strings_h = <<>> /\ icons_json # <<>> =>
               \/ loaded_from = <<"icons.json">>
               \/ /\ icons_json[1] = Unparsable
                  /\ loaded_from = <<>>
                  /\ available_icons = {}
                  /\ is_valid = <<FALSE>>
        /\ strings_h = <<>> /\ icons_json = <<>> /\ svg_dir_exists =>
               /\ loaded_from = <<"svg">>
               /\ available_icons = svg_dir
        /\ strings_h = <<>> /\ icons_json = <<>> /\ ~svg_dir_exists =>
               /\ loaded_from = <<>>
               /\ is_valid = <<FALSE>>
               /\ exit_code = <<1>>

\* the set loaded from the SVG directory, there being no header and no store
C18_Witness ==
    /\ is_valid # <<>>
    /\ strings_h = <<>>
    /\ icons_json = <<>>
    /\ loaded_from = <<"svg">>
    /\ available_icons = {<<"a", "_", "b">>, <<"p", "e", "n", "-", "o", "f", "f">>}

(* C19: once the available set has loaded, the validation fails, with exit *)
(* status 1, exactly when a recorded usage names an icon outside the       *)
(* available set; the invalid names are exactly the used names that are    *)
(* not available, with their usages; an invalid name for which there are   *)
(* suggestions still fails the validation.                                 *)
C19_FailIffInvalidUsage ==
    Loaded =>
        /\ is_valid = <<FALSE>> <=> UsedNames \ available_icons # {}
        /\ is_valid = <<TRUE>> <=> UsedNames \subseteq available_icons
        /\ exit_code = <<1>> <=> UsedNames \ available_icons # {}
        /\ exit_code = <<0>> <=> UsedNames \subseteq available_icons
        /\ InvalidNames = UsedNames \ available_icons
        /\ \A i \in DOMAIN invalid_icons :
               \E k \in DOMAIN icon_usage : icon_usage[k] = invalid_icons[i]
        /\ \A n \in UsedNames \ available_icons :
               SuggestionsFor(n, available_icons) # {} => is_valid = <<FALSE>>

\* a failed validation with an invalid name for which there is a suggestion
C19_Witness ==
    /\ Loaded
    /\ is_valid = <<FALSE>>
    /\ exit_code = <<1>>
    /\ <<"p", "e", "n", "-", "o", "f", "f">> \in InvalidNames
    /\ <<"p", "e", "n">> \in SuggestionsFor(<<"p", "e", "n", "-", "o", "f", "f">>, available_icons)

\* nm is a candidate: lowercase letters, digits and hyphens only, of length 2
\* to 50, and not a non-icon word
IsCandidate(nm) ==
    /\ Len(nm) >= 2
    /\ Len(nm) <= 50
    /\ Range(nm) \subseteq Range(LowerCase) \cup Range(Digits) \cup {"-"}
    /\ nm \notin non_icon_words

\* nm stands in the line as the quoted first argument of .icon(, .setIcon(
\* or QtLucide::<word>(
IsCallArgument(nm, line) ==
    \E p \in DOMAIN line :
        /\ line[p] = "("
        /\ \E b \in 1..(p - 1) :
               /\ \A k \in (b + 1)..(p - 1) : line[k] = " "
               /\ \/ EndsWith(SubSeq(line, 1, b), <<".", "i", "c", "o", "n">>)
                  \/ EndsWith(SubSeq(line, 1, b), <<".", "s", "e", "t", "I", "c", "o", "n">>)
                  \/ \E a \in 1..b :
                         /\ \A k \in a..b : line[k] \in IdentChars
                         /\ EndsWith(SubSeq(line, 1, a - 1), <<"Q", "t", "L", "u", "c", "i", "d", "e", ":", ":">>)
        /\ \E c \in (p + 1)..Len(line) :
               /\ \A k \in (p + 1)..(c - 1) : line[k] = " "
               /\ line[c] \in Quotes
               /\ c + Len(nm) + 1 <= Len(line)
               /\ SubSeq(line, c + 1, c + Len(nm)) = nm
               /\ line[c + Len(nm) + 1] \in Quotes

(* C20: every string recorded as an icon usage is a candidate: lowercase   *)
(* letters, digits and hyphens only, of length 2 to 50, and not in the     *)
(* list of non-icon words.                                                 *)
C20_RecordedAreCandidates ==
    \A i \in DOMAIN icon_usage : IsCandidate(icon_usage[i].label)

(* C20, amended: every string recorded as an icon usage is a candidate or  *)
(* is, on the line of the usage, the quoted argument of .icon(, .setIcon(  *)
(* or QtLucide::f(; a non-icon word is recorded only as such an argument.  *)
C20_RecordedAreCandidatesOrCallArguments ==
    \A i \in DOMAIN icon_usage :
        \A k \in DOMAIN icon_usage[i].names :
            LET usage == icon_usage[i].names[k]
            IN  \/ IsCandidate(icon_usage[i].label)
                \/ IsCallArgument(icon_usage[i].label,
                                  sources[usage[1]][usage[2]])

\* the non-icon word icon recorded from b.setIcon("icon"), and no usage
\* recorded from the line with the plain literal "test"
C20_Witness ==
    /\ is_valid # <<>>
    /\ <<"i", "c", "o", "n">> \in UsedNames
    /\ <<"t", "e", "s", "t">> \notin UsedNames
    /\ \E path \in Paths : \E k \in DOMAIN sources[path] :
           Scanned(path) /\ <<"t", "e", "s", "t">> \in StringLiterals(sources[path][k], 1)

-----------------------------------------------------------------------------
(* C21: for every invalid name and every available set, the list a         *)
(* suggestion function returns (suggest_corrections of the validator,      *)
(* suggest_similar_icons of the example checker) has at most 5 entries,    *)
(* holds no name twice and holds members of the available set only.        *)

\* the available names that are related to the invalid name in one of the
\* three ways: synonym, substring, shared word
Related(invalid_icon, available) ==
    {a \in available :
        \/ a \in Range(MappedTo(invalid_icon))
        \/ Occurs(a, invalid_icon)
        \/ Occurs(invalid_icon, a)
        \/ HyphenTokens(a) \cap HyphenTokens(invalid_icon) # {}}

C21_SuggestionsBounded ==
    suggestions # <<>> =>
        /\ Len(suggestions[1]) <= 5
        /\ NoDuplicates(suggestions[1])
        /\ Range(suggestions[1]) \subseteq available_icons

\* a list was cut to five names: more than five available names are related
\* to the invalid name
C21_Witness ==
    /\ suggestions # <<>>
    /\ Len(suggestions[1]) = 5
    /\ Cardinality(Related(name, available_icons)) > 5

-----------------------------------------------------------------------------
(* C22: suggestions are ordered by strategy priority: when the invalid     *)
(* name is a key of the synonym table, the synonyms that are in the        *)
(* available set come first, in table order (for "edit": pencil, pen,      *)
(* square-pen), then the substring matches, then the token-overlap         *)
(* matches; no match of a lower-priority strategy precedes a match of a    *)
(* higher-priority one.                                                    *)

\* the strategy that brings up the available name a for invalid_icon:
\* 1 synonym table, 2 substring either way, 3 overlap of tokens
Strategy(invalid_icon, a) ==
    IF a \in Range(MappedTo(invalid_icon)) THEN 1
    ELSE IF Occurs(a, invalid_icon) \/ Occurs(invalid_icon, a) THEN 2
    ELSE 3

\* the synonyms of invalid_icon that are available, in table order
AvailableSynonyms(invalid_icon, available) ==
    SelectSeq(MappedTo(invalid_icon), LAMBDA a : a \in available)

C22_SuggestionsByPriority ==
    suggestions # <<>> =>
        LET lst == suggestions[1]
            synonyms == AvailableSynonyms(name, available_icons)
        IN  /\ Len(lst) >= Len(Take(synonyms, 5))
            /\ SubSeq(lst, 1, Len(Take(synonyms, 5))) = Take(synonyms, 5)
            /\ \A i, j \in DOMAIN lst :
                   i < j => Strategy(name, lst[i]) <= Strategy(name, lst[j])

-----------------------------------------------------------------------------
(* C23: an available name that is neither a synonym nor a substring match  *)
(* of the invalid name is suggested only when the Jaccard overlap of the   *)
(* hyphen-delimited token sets of the two names is strictly greater than   *)
(* 0.5 (2*|A \cap B| > |A \cup B|); an overlap of 0.5 or less never        *)
(* produces a suggestion.                                                  *)

\* the Jaccard overlap of the token sets of the two names is above 0.5
OverlapAboveHalf(name1, name2) ==
    2 * Cardinality(HyphenTokens(name1) \cap HyphenTokens(name2))
        > Cardinality(HyphenTokens(name1) \cup HyphenTokens(name2))

C23_OverlapSuggestedAboveHalfOnly ==
    suggestions # <<>> =>
        \A i \in DOMAIN suggestions[1] :
            Strategy(name, suggestions[1][i]) = 3
                => OverlapAboveHalf(name, suggestions[1][i])

-----------------------------------------------------------------------------
(* C24: the completion marker is touched in a run if and only if that run  *)
(* succeeds: build_resources_meson touches the stamp file only after       *)
(* build_resources.py exited with 0, check_example_icons only when every   *)
(* checked example icon is valid, and a run that fails exits non-zero      *)
(* without creating or updating the marker.                                *)

\* the names extract_icon_list_from_cpp took from the example files
ExtractedNames(extracted) ==
    UNION {{extracted[path][i][1] : i \in DOMAIN extracted[path]} :
              path \in DOMAIN extracted}

\* this step is a run of a wrapper that was given the path of a stamp file
WrapperRunWithStamp ==
    check_example_icons_main(3) \/ build_resources_meson_main(3)

C24_StampIffSuccess ==
    [][WrapperRunWithStamp =>
         /\ stamp_file' = <<TRUE>> <=> exit_code' = <<0>>
         /\ exit_code' # <<0>> =>
                /\ exit_code' = <<1>>
                /\ stamp_file = <<>> => stamp_file' = <<>>
                /\ stamp_file # <<>> => stamp_file' = <<FALSE>>
         /\ check_example_icons_main(3) /\ stamp_file' = <<TRUE>> =>
                /\ HeaderNames(strings_h) # {}
                /\ ExtractedNames(example_icons'[1]) \subseteq HeaderNames(strings_h)
         /\ build_resources_meson_main(3) /\ stamp_file' = <<TRUE>> =>
                /\ steps' = <<<<"build_resources.py", 0>>>>
                /\ build_all_result' = <<TRUE>>]_vars

\* the stamp file touched after the build through the Meson wrapper
\* succeeded and the example checker found icons, all of them valid
C24_Witness ==
    /\ stamp_file = <<TRUE>>
    /\ exit_code = <<0>>
    /\ steps = <<<<"build_resources.py", 0>>>>
    /\ example_icons # <<>>
    /\ ExtractedNames(example_icons[1]) # {}

-----------------------------------------------------------------------------
(* C28: extract_icon_list_from_cpp extracts a << "name" literal only when  *)
(* it belongs to an icon-list statement, that is when it lies between a    *)
(* line that mentions sampleIcons together with << and the semicolon that  *)
(* ends that statement; once the statement has ended (a list written on a  *)
(* single line ending in ';' included), literals streamed with << in       *)
(* later, unrelated statements are not extracted.                          *)

\* line k of the file belongs to an icon-list statement: a line s up to k
\* mentions sampleIcons and <<, and no line from s to before k holds the
\* semicolon that ends the statement
InIconListStatement(lines, k) ==
    \E s \in 1..k :
        /\ Occurs(<<"s", "a", "m", "p", "l", "e", "I", "c", "o", "n", "s">>, lines[s])
        /\ Occurs(<<"<", "<">>, lines[s])
        /\ \A j \in s..(k - 1) : ";" \notin Range(lines[j])

C28_OnlyIconListLiteralsExtracted ==
    example_icons # <<>> =>
        \A path \in DOMAIN example_icons[1] :
            \A i \in DOMAIN example_icons[1][path] :
                InIconListStatement(sources[path], example_icons[1][path][i][2])

-----------------------------------------------------------------------------
(* C25: build_all runs its stages strictly in the order metadata           *)
(* synthesis, manifest generation, header generation, each to completion   *)
(* before the next starts; when a generator sub-invocation reports a       *)
(* non-zero exit, build_all returns failure at once without starting any   *)
(* later stage, and the builder process exits non-zero.                    *)

\* the stages of a build in their order
StageOrder ==
    <<"generate_metadata_from_svg", "generate_qrc.py", "generate_headers.py">>

\* the stages started in this step, up to stage n, all exited with 0
StagesSucceeded(n) ==
    /\ Len(steps') >= n
    /\ \A i \in 1..n : steps'[i][2] = 0

C25_StagesInOrderAbortOnFailure ==
    [][build_all =>
         /\ Len(steps') \in 1..3
         /\ \A i \in DOMAIN steps' : steps'[i][1] = StageOrder[i]
         /\ \A i \in DOMAIN steps' : i < Len(steps') => steps'[i][2] = 0
         /\ StagesSucceeded(1) /\ icons_json' # <<>>
         /\ StagesSucceeded(2) => QrcNames(qrc') = StoreNames'
         /\ StagesSucceeded(3) => HeaderNames(strings_h') = StoreNames'
         /\ ~StagesSucceeded(2) =>
                /\ Len(steps') = 2
                /\ UNCHANGED <<qrc, enums_h, strings_h>>
         /\ StagesSucceeded(2) /\ ~StagesSucceeded(3) =>
                UNCHANGED <<enums_h, strings_h>>
         /\ ~StagesSucceeded(3) =>
                build_all_result' = <<FALSE>> /\ exit_code' = <<1>>
         /\ StagesSucceeded(3) =>
                build_all_result' = <<TRUE>> /\ exit_code' = <<0>>]_vars

\* a build that was given up after the manifest generator exited non-zero:
\* the store written, no header
C25_Witness ==
    /\ Len(steps) = 2
    /\ steps[2][1] = "generate_qrc.py"
    /\ steps[2][2] # 0
    /\ build_all_result = <<FALSE>>
    /\ exit_code = <<1>>
    /\ icons_json # <<>>
    /\ StoreNames # {}
    /\ enums_h = <<>>

-----------------------------------------------------------------------------
(* C26: after any sequence of changes to the SVG directory and builder     *)
(* runs, whenever build_all returns success the metadata store, the        *)
(* manifest, the enumeration header and the lookup-table header all exist  *)
(* and each lists exactly the base names of the .svg files scanned in that *)
(* run: names written by an earlier run that are no longer in the          *)
(* directory never survive, and the store's count equals the number of     *)
(* icons.                                                                  *)

\* the symbols a written QtLucideEnums.h lists, in order
EnumSymbols(file) ==
    [i \in DOMAIN file[1].enum_values |-> file[1].enum_values[i].enum_name]

\* the symbols of the names of the set S, in the sorted order of the names
SymbolsOf(S) ==
    LET names == sorted(CHOOSE order \in Orders(S) : TRUE)
    IN  [i \in DOMAIN names |-> _name_to_enum(names[i])]

C26_SuccessfulBuildListsScannedNames ==
    [][build_all /\ build_all_result' = <<TRUE>> =>
         /\ icons_json' # <<>> /\ qrc' # <<>>
         /\ enums_h' # <<>> /\ strings_h' # <<>>
         /\ StoreNames' = ScannedDir
         /\ QrcNames(qrc') = ScannedDir
         /\ Len(qrc'[1]) = Cardinality(ScannedDir)
         /\ HeaderNames(strings_h') = ScannedDir
         /\ Len(strings_h'[1]) = Cardinality(ScannedDir)
         /\ EnumSymbols(enums_h') = SymbolsOf(ScannedDir)
         /\ enums_h'[1].ICON_COUNT = Cardinality(ScannedDir)
         /\ icons_json'[1].count = Len(icons_json'[1].icons)
         /\ icons_json'[1].count = Cardinality(ScannedDir)]_vars

\* the artifacts of a successful build list a name whose file has since
\* been removed from the directory: the state the next build starts from
C26_Witness ==
    /\ build_all_result = <<TRUE>>
    /\ edits > 0
    /\ StoreNames \ svg_dir # {}
    /\ QrcNames(qrc) \ svg_dir # {}
    /\ HeaderNames(strings_h) \ svg_dir # {}

-----------------------------------------------------------------------------
(* C27: for every catalog, the enumeration artifact and the lookup-table   *)
(* artifact agree entry by entry: both have one entry per catalog name,    *)
(* and the k-th enumeration constant (ordinal k) is the same symbol as the *)
(* key of the k-th lookup-table entry, whose string is the k-th name in    *)
(* sorted order.                                                           *)

C27_HeadersAgreeEntryByEntry ==
    [][HeadersWritten =>
         LET enum_values == enums_h'[1].enum_values
             entries == strings_h'[1]
         IN  /\ Len(enum_values) = Cardinality(StoreNames)
             /\ Len(entries) = Cardinality(StoreNames)
             /\ \A k \in DOMAIN entries :
                    /\ enum_values[k].value = k - 1
                    /\ enum_values[k].enum_name = entries[k].enum_name
                    /\ entries[k].icon_name \in StoreNames
                    /\ Rank(entries[k].icon_name, StoreNames) = k - 1]_vars

\* headers of more than one entry, written from a store whose keys are not
\* in sorted order
C27_Witness ==
    /\ enums_h # <<>>
    /\ strings_h # <<>>
    /\ Len(strings_h[1]) > 1
    /\ icons_json # <<>>
    /\ HeaderNames(strings_h) = StoreNames
    /\ Keys(icons_json[1].icons) # sorted(Keys(icons_json[1].icons))

-----------------------------------------------------------------------------
(* C29: each occurrence of a string literal in a scanned file is recorded  *)
(* at most once: for one literal occurrence on one line, icon_usage (and   *)
(* therefore the invalid-name report) never holds the same (file, line)    *)
(* pair twice under that name, also when the literal is the argument of    *)
(* .icon(...), .setIcon(...) or QtLucide::f(...).                          *)

\* the number of times the name stands on the line as a quoted literal
LiteralOccurrences(nm, line) ==
    Cardinality({p \in 1..Len(line) :
        /\ line[p] \in Quotes
        /\ p + Len(nm) + 1 <= Len(line)
        /\ SubSeq(line, p + 1, p + Len(nm)) = nm
        /\ line[p + Len(nm) + 1] = line[p]})

\* the number of entries of the list that equal x
CountOf(x, lst) == Cardinality({i \in DOMAIN lst : lst[i] = x})

C29_OccurrenceRecordedOnce ==
    \A n \in DOMAIN icon_usage :
        \A k \in DOMAIN icon_usage[n].names :
            LET usage == icon_usage[n].names[k]
            IN  CountOf(usage, icon_usage[n].names)
                    <= LiteralOccurrences(icon_usage[n].label,
                                          sources[usage[1]][usage[2]])

-----------------------------------------------------------------------------
(* C30: in the generate_resources step of the build scripts (build_cmake,  *)
(* and the Python-script fallback of build_xmake), a resource-generation   *)
(* subprocess that exits non-zero is downgraded to a warning:              *)
(* generate_resources returns and the build continues with configure and   *)
(* compile instead of terminating the script.                              *)

\* the commands that generate the resources, and those that configure
ResourceCommands == {"build_resources.py", "xmake generate-resources"}
ConfigureCommands == {"cmake", "xmake config"}

C30_ResourceFailureIsWarning ==
    \A i \in DOMAIN steps :
        steps[i][1] \in ResourceCommands /\ steps[i][2] # 0
            => \E j \in DOMAIN steps :
                   j > i /\ steps[j][1] \in ConfigureCommands

====
